---------------------------- MODULE Spec2Model ----------------------------
(***************************************************************************)
(* Verification model of the weight-tracking dashboard's data service and  *)
(* analytics (ustunfatih/weightwatch-codex).                               *)
(*                                                                         *)
(* Numbers.  A JavaScript number is modelled as an exact rational          *)
(* [n |-> numerator, d |-> denominator] in lowest terms with d > 0, plus   *)
(* the three IEEE specials, written with d = 0:  NaN = 0/0, +Infinity =    *)
(* 1/0 and -Infinity = -1/0.  Rounding of binary floating point and the    *)
(* sign of zero are not modelled.                                          *)
(*                                                                         *)
(* Dates.  A date string is modelled as [fmt, day]: fmt "iso" is the       *)
(* canonical yyyy-MM-dd text, fmt "dmy" is the same calendar day written   *)
(* dd.MM.yyyy (a different string that parses to the same day) and fmt     *)
(* "bad" is a text no parsing strategy accepts.  A Date object is its day  *)
(* number; getTime() is measured in days (local midnights, no DST shift).  *)
(***************************************************************************)
EXTENDS Integers, Sequences, FiniteSets, TLC

VARIABLES
    storage,          \* localStorage[WEIGHT_ENTRIES]: [present, entries]
    lastEntryDate,    \* localStorage[LAST_ENTRY_DATE]: [present, date]
    mockWeightData,   \* the module-level seed array of dataService.ts
    targetStorage,    \* localStorage[TARGET_DATA]: [present, target]
    achievementStorage, \* localStorage[ACHIEVEMENTS]: [present, achievements]
    clock,            \* the day new Date() falls on
    result,           \* outcome of the last data-service call
    fin,              \* arguments of the pure function under analysis
    fout              \* results of the pure functions applied to fin

vars == <<storage, lastEntryDate, mockWeightData, targetStorage,
          achievementStorage, clock, result, fin, fout>>

---------------------------------------------------------------------------
(* Bounds of the model *)

MaxDay == 1          \* input days are 0..MaxDay
MaxStored == 2       \* length of a list found in storage at start-up
MaxEntries == 3      \* addWeightEntry is explored up to this many entries
MaxLen == 3          \* length of a list handed to recalculateEntries
MaxStatLen == 2      \* length of a list handed to calculateStatistics
MaxSeriesLen == 2    \* length of a free-form list handed to the analytics
SqrtScale == 1000    \* Math.sqrt of a non-square is kept to 1/SqrtScale
MaxColumns == 3      \* columns of the imported sheet
MaxRows == 2         \* data rows of the imported sheet

---------------------------------------------------------------------------
(* JavaScript number arithmetic *)

Abs(x) == IF x < 0 THEN -x ELSE x

Sgn(x) == IF x > 0 THEN 1 ELSE IF x < 0 THEN -1 ELSE 0

RECURSIVE GCD(_, _)
GCD(a, b) == IF b = 0 THEN a ELSE GCD(b, a % b)

Num(n, d) ==
    IF d = 0 THEN [n |-> Sgn(n), d |-> 0]
    ELSE LET g == GCD(Abs(n), Abs(d))
         IN  [n |-> Sgn(d) * (n \div g), d |-> Abs(d) \div g]

RInt(i) == [n |-> i, d |-> 1]

NaN == [n |-> 0, d |-> 0]

IsNaN(a) == a.d = 0 /\ a.n = 0

IsFinite(a) == a.d # 0

Neg(a) == [n |-> -a.n, d |-> a.d]

Add(a, b) ==
    IF IsNaN(a) \/ IsNaN(b) THEN NaN
    ELSE IF a.d = 0 /\ b.d = 0 THEN (IF a.n = b.n THEN a ELSE NaN)
    ELSE IF a.d = 0 THEN a
    ELSE IF b.d = 0 THEN b
    ELSE LET g == GCD(a.d, b.d)
         IN  Num(a.n * (b.d \div g) + b.n * (a.d \div g), (a.d \div g) * b.d)

Sub(a, b) == Add(a, Neg(b))

Mul(a, b) ==
    IF IsNaN(a) \/ IsNaN(b) THEN NaN
    ELSE IF a.d = 0 \/ b.d = 0 THEN [n |-> Sgn(a.n) * Sgn(b.n), d |-> 0]
    ELSE LET g1 == GCD(Abs(a.n), b.d)
             g2 == GCD(Abs(b.n), a.d)
         IN  Num((a.n \div g1) * (b.n \div g2), (a.d \div g2) * (b.d \div g1))

Div(a, b) ==
    IF IsNaN(a) \/ IsNaN(b) THEN NaN
    ELSE IF a.d = 0 /\ b.d = 0 THEN NaN
    ELSE IF a.d = 0 THEN [n |-> a.n * (IF b.n < 0 THEN -1 ELSE 1), d |-> 0]
    ELSE IF b.d = 0 THEN RInt(0)
    ELSE IF b.n = 0 THEN [n |-> Sgn(a.n), d |-> 0]
    ELSE Mul(a, [n |-> Sgn(b.n) * b.d, d |-> Abs(b.n)])

\* a < b as JavaScript evaluates it: false when either side is NaN
Lt(a, b) ==
    IF IsNaN(a) \/ IsNaN(b) THEN FALSE
    ELSE IF a = b THEN FALSE
    ELSE IF a.d = 0 THEN a.n < 0
    ELSE IF b.d = 0 THEN b.n > 0
    ELSE LET g == GCD(a.d, b.d)
         IN  a.n * (b.d \div g) < b.n * (a.d \div g)

Ge(a, b) == IF IsNaN(a) \/ IsNaN(b) THEN FALSE ELSE ~Lt(a, b)

Le(a, b) == IF IsNaN(a) \/ IsNaN(b) THEN FALSE ELSE ~Lt(b, a)

\* Math.max / Math.min: NaN when either argument is NaN
MathMax(a, b) == IF IsNaN(a) \/ IsNaN(b) THEN NaN ELSE IF Lt(a, b) THEN b ELSE a

MathMin(a, b) == IF IsNaN(a) \/ IsNaN(b) THEN NaN ELSE IF Lt(b, a) THEN b ELSE a

MathFloor(a) == IF a.d = 0 THEN a ELSE RInt(a.n \div a.d)

MathCeil(a) == Neg(MathFloor(Neg(a)))

MathAbs(a) == [n |-> Abs(a.n), d |-> a.d]

\* ToInteger, as Date.prototype.setDate applies it
MathTrunc(a) == IF a.d = 0 THEN a ELSE IF a.n < 0 THEN MathCeil(a) ELSE MathFloor(a)

RECURSIVE ISqrtIter(_, _)
ISqrtIter(v, x) ==
    LET y == (x + v \div x) \div 2
    IN  IF y >= x THEN x ELSE ISqrtIter(v, y)

\* the largest r with r * r <= v
ISqrt(v) == IF v < 2 THEN v ELSE ISqrtIter(v, v)

\* Math.sqrt: exact on squares of rationals, otherwise rounded down to a
\* multiple of 1/SqrtScale and never to zero
MathSqrt(a) ==
    IF IsNaN(a) THEN NaN
    ELSE IF a.d = 0 THEN (IF a.n > 0 THEN a ELSE NaN)
    ELSE IF a.n < 0 THEN NaN
    ELSE IF a.n = 0 THEN RInt(0)
    ELSE LET rn == ISqrt(a.n)
             rd == ISqrt(a.d)
         IN  IF rn * rn = a.n /\ rd * rd = a.d THEN Num(rn, rd)
             ELSE LET x == a.n * SqrtScale
                      scaled == (x \div a.d) * SqrtScale
                                + ((x % a.d) * SqrtScale) \div a.d
                      r == ISqrt(scaled)
                  IN  Num(IF r = 0 THEN 1 ELSE r, SqrtScale)

RECURSIVE SumFrom(_, _)
SumFrom(values, i) ==
    IF i > Len(values) THEN RInt(0) ELSE Add(values[i], SumFrom(values, i + 1))

\* values.reduce((sum, v) => sum + v, 0)
Sum(values) == SumFrom(values, 1)

SliceIndex(len, k) ==
    IF k < 0 THEN (IF len + k < 0 THEN 0 ELSE len + k)
    ELSE IF k > len THEN len ELSE k

\* Array.prototype.slice(a, b), indices from 0, negative ones from the end
slice(s, a, b) == SubSeq(s, SliceIndex(Len(s), a) + 1, SliceIndex(Len(s), b))

---------------------------------------------------------------------------
(* Dates: src/utils/dateUtils.ts *)

IsoDate(day) == [fmt |-> "iso", day |-> day]

DmyDate(day) == [fmt |-> "dmy", day |-> day]

BadDate == [fmt |-> "bad", day |-> 0]

\* parseDateFlexible: a Date (its day number) or null
parseDateFlexible(value) ==
    IF value.fmt \in {"iso", "dmy"} THEN [ok |-> TRUE, day |-> value.day]
    ELSE [ok |-> FALSE, day |-> 0]

\* toISODate: format(parsed, 'yyyy-MM-dd') or null
toISODate(value) ==
    LET parsed == parseDateFlexible(value)
    IN  IF parsed.ok THEN [ok |-> TRUE, date |-> IsoDate(parsed.day)]
        ELSE [ok |-> FALSE, date |-> BadDate]

\* (parseDateFlexible(x) ?? new Date(x)).getTime(), in days; NaN for an
\* Invalid Date
TimeOf(date) ==
    LET parsed == parseDateFlexible(date)
    IN  IF parsed.ok THEN RInt(parsed.day) ELSE NaN

---------------------------------------------------------------------------
(* Entries and their derivation: src/services/dataService.ts *)

Zero == RInt(0)

Entry(date, weight, changePercent, changeKg, dailyChange) ==
    [date |-> date, weight |-> weight, changePercent |-> changePercent,
     changeKg |-> changeKg, dailyChange |-> dailyChange]

\* the comparator handed to Array.prototype.sort
compareByDate(a, b) == Sub(TimeOf(a.date), TimeOf(b.date))

\* Array.prototype.sort is stable, and a comparator result of NaN counts as
\* +0 (ECMAScript SortCompare).  With every date parseable the result is the
\* one stable ascending order; the insertion below is that order's
\* construction, element by element.
RECURSIVE InsertSorted(_, _)
InsertSorted(s, x) ==
    IF s = <<>> THEN <<x>>
    ELSE LET last == s[Len(s)]
         IN  IF Lt(Zero, compareByDate(last, x))
             THEN Append(InsertSorted(SubSeq(s, 1, Len(s) - 1), x), last)
             ELSE Append(s, x)

\* mutant: the input order is kept
SortByDate_unsorted(s) == s

RECURSIVE SortByDate(_)
SortByDate(s) ==
    IF s = <<>> THEN <<>>
    ELSE InsertSorted(SortByDate(SubSeq(s, 1, Len(s) - 1)), s[Len(s)])

\* mutant: the new delta is added to the delta the entry already carries
calculateDerivedFields_accumulates(entry, hasPrevious, previousEntry) ==
    IF ~hasPrevious
    THEN [entry EXCEPT !.changePercent = Zero, !.changeKg = Zero,
                       !.dailyChange = Zero]
    ELSE LET changeKg == Add(entry.changeKg,
                             Sub(entry.weight, previousEntry.weight))
             daysDiff == MathMax(RInt(1),
                            MathFloor(Sub(TimeOf(entry.date),
                                          TimeOf(previousEntry.date))))
         IN  [entry EXCEPT
                 !.changePercent = Mul(Div(changeKg, previousEntry.weight), RInt(100)),
                 !.changeKg = changeKg,
                 !.dailyChange = Div(changeKg, daysDiff)]

\* mutant: the first entry is returned as stored, its deltas not reset
calculateDerivedFields_firstKept(entry, hasPrevious, previousEntry) ==
    IF ~hasPrevious
    THEN entry
    ELSE LET changeKg == Sub(entry.weight, previousEntry.weight)
             daysDiff == MathMax(RInt(1),
                            MathFloor(Sub(TimeOf(entry.date),
                                          TimeOf(previousEntry.date))))
         IN  [entry EXCEPT
                 !.changePercent = Mul(Div(changeKg, previousEntry.weight), RInt(100)),
                 !.changeKg = changeKg,
                 !.dailyChange = Div(changeKg, daysDiff)]

calculateDerivedFields(entry, hasPrevious, previousEntry) ==
    IF ~hasPrevious
    THEN [entry EXCEPT !.changePercent = Zero, !.changeKg = Zero,
                       !.dailyChange = Zero]
    ELSE LET changeKg == Sub(entry.weight, previousEntry.weight)
             changePercent == Mul(Div(changeKg, previousEntry.weight), RInt(100))
             daysDiff == MathMax(RInt(1),
                            MathFloor(Sub(TimeOf(entry.date),
                                          TimeOf(previousEntry.date))))
             dailyChange == Div(changeKg, daysDiff)
         IN  [entry EXCEPT !.changePercent = changePercent,
                           !.changeKg = changeKg,
                           !.dailyChange = dailyChange]

\* mutant: the entries are sorted and keep the deltas they carry
recalculateEntries_sortOnly(entries) == SortByDate(entries)

recalculateEntries(entries) ==
    LET sorted == SortByDate(entries)
    IN  [i \in 1..Len(sorted) |->
            calculateDerivedFields(sorted[i], i > 1,
                                   sorted[IF i > 1 THEN i - 1 ELSE i])]

---------------------------------------------------------------------------
(* The stored series: src/services/dataService.ts, src/services/storage.ts *)

NoStorage == [present |-> FALSE, entries |-> <<>>]

Stored(entries) == [present |-> TRUE, entries |-> entries]

NoLast == [present |-> FALSE, date |-> BadDate]

\* mutant: the last entry of the list is taken for the latest
LatestOf_lastInList(entries, i, max) == entries[Len(entries)]

\* entries.reduce((max, entry) => entry later than max ? entry : max, entries[0])
RECURSIVE LatestOf(_, _, _)
LatestOf(entries, i, max) ==
    IF i > Len(entries) THEN max
    ELSE LatestOf(entries, i + 1,
                  IF Lt(TimeOf(max.date), TimeOf(entries[i].date))
                  THEN entries[i] ELSE max)

\* the value LAST_ENTRY_DATE holds after updateLastEntryDate(entries)
updateLastEntryDate(entries) ==
    IF entries = <<>> THEN NoLast
    ELSE [present |-> TRUE, date |-> LatestOf(entries, 1, entries[1]).date]

\* mutant: rows with an unparseable date are kept instead of filtered out
normalizeStoredEntries_noFilter(entries) ==
    [i \in 1..Len(entries) |->
        [entries[i] EXCEPT !.date = IF toISODate(@).ok THEN toISODate(@).date ELSE @]]

\* the list normalizeStoredEntries returns: unparseable dates dropped, the
\* others rewritten to their ISO form, everything else kept as stored
normalizeStoredEntries(entries) ==
    LET kept == SelectSeq(entries, LAMBDA e : toISODate(e.date).ok)
    IN  [i \in 1..Len(kept) |->
            [kept[i] EXCEPT !.date = toISODate(kept[i].date).date]]

\* getStoredEntries: the list it returns, what it leaves in the two storage
\* keys, whether the list returned is the mockWeightData array itself, and
\* how many stored rows normalizeStoredEntries filtered out
getStoredEntries(st, last, mock) ==
    IF st.present
    THEN LET normalized == normalizeStoredEntries(st.entries)
         IN  [entries |-> normalized,
              storage |-> IF Len(normalized) # Len(st.entries)
                          THEN Stored(normalized) ELSE st,
              last    |-> updateLastEntryDate(normalized),
              isMock  |-> FALSE,
              dropped |-> Len(st.entries) - Len(normalized)]
    ELSE [entries |-> mock, storage |-> Stored(mock), last |-> last,
          isMock |-> TRUE, dropped |-> 0]

\* entries.findIndex(e => e.date === date): 0 stands for -1
RECURSIVE FindIndexFrom(_, _, _)
FindIndexFrom(entries, date, i) ==
    IF i > Len(entries) THEN 0
    ELSE IF entries[i].date = date THEN i
    ELSE FindIndexFrom(entries, date, i + 1)

findIndex(entries, date) == FindIndexFrom(entries, date, 1)

---------------------------------------------------------------------------
(* Inputs *)

Days == 0..MaxDay

InputDates == {IsoDate(d) : d \in Days}

Weights == {RInt(98), RInt(100)}

Stale == RInt(7)

\* what an earlier session, an import or a restored backup may have left in
\* storage: any date text, derived values that match nothing (lists with
\* consistent derived values are the ones the operations below write)
StoredDates == InputDates \cup {DmyDate(1), BadDate}

StoredEntries ==
    {Entry(d, w, Stale, Stale, Stale) : d \in StoredDates, w \in Weights}

RECURSIVE SeqsUpTo(_, _)
SeqsUpTo(S, n) ==
    IF n = 0 THEN {<<>>}
    ELSE LET shorter == SeqsUpTo(S, n - 1)
         IN  shorter \cup {Append(s, x) : s \in shorter, x \in S}

StoredLists == SeqsUpTo(StoredEntries, MaxStored)

\* the first two rows of the seed series (2025-09-28 is day 0, 2025-10-04 is
\* day 6), with the rounded derived values the source carries
SeedData ==
    << Entry(IsoDate(0), Num(11235, 100), Zero, Zero, Zero),
       Entry(IsoDate(6), RInt(112), Num(-31, 100), Num(-35, 100), Num(-6, 100)) >>

\* the patch the entry form submits: WeightEntryForm passes the (possibly
\* edited) date and the weight together
Updates == [date : InputDates, weight : Weights]

\* result: the operation, whether it returned or threw, the Error's message,
\* the list returned, whether syncToSheetsIfEnabled was reached, and how many
\* stored rows the call's getStoredEntries filtered out
Outcome(op, status, error, returned, syncCalled, dropped) ==
    [op |-> op, status |-> status, error |-> error, returned |-> returned,
     syncCalled |-> syncCalled, dropped |-> dropped]

NoCall == Outcome("none", "ok", "", <<>>, FALSE, 0)

Idle == [kind |-> "none"]

\* mockTargetData: 2025-09-28 is day 0 and 2026-07-31 is day 306; the
\* constant carries totalDuration 307
mockTargetData ==
    [startDate |-> IsoDate(0),
     startWeight |-> Num(11235, 100),
     endDate |-> IsoDate(306),
     endWeight |-> RInt(75),
     totalDuration |-> RInt(307),
     totalKg |-> Num(3735, 100),
     height |-> RInt(170)]

TargetFields == DOMAIN mockTargetData

NoTarget == [present |-> FALSE, target |-> mockTargetData]

StoredTarget(target) == [present |-> TRUE, target |-> target]

\* toISODate(x) || x
ISOOr(date) == IF toISODate(date).ok THEN toISODate(date).date ELSE date

\* normalizeTargetData: both dates to ISO where they parse, written back
\* only when one of them changed
normalizeTargetData(target) ==
    [target EXCEPT !.startDate = ISOOr(target.startDate),
                   !.endDate = ISOOr(target.endDate)]

\* getStoredTargetData: the stored goal normalised, or the seed goal, which
\* is then written
getStoredTargetData(st) ==
    IF st.present
    THEN [target |-> normalizeTargetData(st.target),
          storage |-> StoredTarget(normalizeTargetData(st.target))]
    ELSE [target |-> mockTargetData, storage |-> StoredTarget(mockTargetData)]

\* { ...currentTarget, ...updates }: updates is a function from the fields
\* it carries to their new values
Spread(currentTarget, updates) ==
    [f \in TargetFields |->
        IF f \in DOMAIN updates THEN updates[f] ELSE currentTarget[f]]


\* localStorage[ACHIEVEMENTS] before anything was saved
NoAchievements == [present |-> FALSE, achievements |-> <<>>]

StoredAchievements(achievements) == [present |-> TRUE, achievements |-> achievements]

---------------------------------------------------------------------------
(* Data-service operations *)

Init ==
    /\ storage \in {NoStorage} \cup {Stored(s) : s \in StoredLists}
    /\ lastEntryDate = NoLast
    /\ mockWeightData = SeedData
    /\ targetStorage = NoTarget
    /\ achievementStorage = NoAchievements
    /\ clock = 0
    /\ result = NoCall
    /\ fin = Idle
    /\ fout = Idle

fetchWeightData ==
    LET g == getStoredEntries(storage, lastEntryDate, mockWeightData)
    IN  /\ storage' = g.storage
        /\ lastEntryDate' = g.last
        /\ result' = Outcome("fetch", "ok", "",
                              g.entries, FALSE, g.dropped)
        /\ UNCHANGED <<mockWeightData, targetStorage, achievementStorage, clock, fin, fout>>

addWeightEntry(date, weight) ==
    LET g == getStoredEntries(storage, lastEntryDate, mockWeightData)
        newEntry == Entry(date, weight, Zero, Zero, Zero)
        pushed == Append(g.entries, newEntry)
        updatedEntries == recalculateEntries(pushed)
    IN  /\ Len(g.entries) < MaxEntries
        /\ IF findIndex(g.entries, date) # 0
           THEN /\ storage' = g.storage
                /\ lastEntryDate' = g.last
                /\ UNCHANGED targetStorage
                /\ result' = Outcome("add", "error", "An entry for this date already exists",
                              <<>>, FALSE, g.dropped)
                /\ UNCHANGED mockWeightData
           ELSE /\ mockWeightData' = IF g.isMock THEN pushed ELSE mockWeightData
                /\ storage' = Stored(updatedEntries)
                /\ lastEntryDate' = updateLastEntryDate(updatedEntries)
                /\ targetStorage' = getStoredTargetData(targetStorage).storage
                /\ result' = Outcome("add", "ok", "",
                              updatedEntries, TRUE, g.dropped)
        /\ UNCHANGED <<achievementStorage, clock, fin, fout>>

updateWeightEntry(date, updates) ==
    LET g == getStoredEntries(storage, lastEntryDate, mockWeightData)
        index == findIndex(g.entries, date)
        patched == [g.entries[index] EXCEPT
                       !.date = updates.date, !.weight = updates.weight]
        assigned == [g.entries EXCEPT ![index] = patched]
        updatedEntries == recalculateEntries(assigned)
    IN  /\ IF index = 0
           THEN /\ storage' = g.storage
                /\ lastEntryDate' = g.last
                /\ UNCHANGED targetStorage
                /\ result' = Outcome("update", "error", "Entry not found",
                              <<>>, FALSE, g.dropped)
                /\ UNCHANGED mockWeightData
           ELSE /\ mockWeightData' = IF g.isMock THEN assigned ELSE mockWeightData
                /\ storage' = Stored(updatedEntries)
                /\ lastEntryDate' = updateLastEntryDate(updatedEntries)
                /\ targetStorage' = getStoredTargetData(targetStorage).storage
                /\ result' = Outcome("update", "ok", "",
                              updatedEntries, TRUE, g.dropped)
        /\ UNCHANGED <<achievementStorage, clock, fin, fout>>

deleteWeightEntry(date) ==
    LET g == getStoredEntries(storage, lastEntryDate, mockWeightData)
        filtered == SelectSeq(g.entries, LAMBDA e : e.date # date)
        updatedEntries == recalculateEntries(filtered)
    IN  /\ IF Len(filtered) = Len(g.entries)
           THEN /\ storage' = g.storage
                /\ lastEntryDate' = g.last
                /\ UNCHANGED targetStorage
                /\ result' = Outcome("delete", "error", "Entry not found",
                              <<>>, FALSE, g.dropped)
           ELSE /\ storage' = Stored(updatedEntries)
                /\ lastEntryDate' = updateLastEntryDate(updatedEntries)
                /\ targetStorage' = getStoredTargetData(targetStorage).storage
                /\ result' = Outcome("delete", "ok", "",
                              updatedEntries, TRUE, g.dropped)
        /\ UNCHANGED <<mockWeightData, achievementStorage, clock, fin, fout>>

Next ==
    \/ fetchWeightData
    \/ \E d \in InputDates, w \in Weights : addWeightEntry(d, w)
    \/ \E d \in InputDates, u \in Updates : updateWeightEntry(d, u)
    \/ \E d \in InputDates : deleteWeightEntry(d)

Spec == Init /\ [][Next]_vars

---------------------------------------------------------------------------
(* Properties of the stored series *)

Mutated == result.op \in {"add", "update", "delete"} /\ result.status = "ok"

\* C3: after every successful addWeightEntry, updateWeightEntry or
\* deleteWeightEntry that leaves at least one stored entry, the first entry in
\* chronological order (no stored entry is dated before it) has
\* changePercent = changeKg = dailyChange = 0.
FirstEntryZeroed ==
    (Mutated /\ storage.entries # <<>>) =>
        LET first == storage.entries[1]
        IN  /\ \A i \in DOMAIN storage.entries :
                   ~Lt(TimeOf(storage.entries[i].date), TimeOf(first.date))
            /\ first.changePercent = Zero
            /\ first.changeKg = Zero
            /\ first.dailyChange = Zero

\* a delete or an add has left a series of two or more entries whose second
\* entry carries a non-zero delta against the zeroed first one
FirstEntryZeroedWitness ==
    /\ result.op \in {"add", "delete"}
    /\ result.status = "ok"
    /\ Len(storage.entries) >= 2
    /\ storage.entries[2].changeKg # Zero

\* two entries carry the same date: the same text, or the same calendar day
SameDate(a, b) ==
    \/ a.date = b.date
    \/ /\ parseDateFlexible(a.date).ok
       /\ parseDateFlexible(b.date).ok
       /\ parseDateFlexible(a.date).day = parseDateFlexible(b.date).day

DistinctDates(entries) ==
    \A i, j \in DOMAIN entries : i # j => ~SameDate(entries[i], entries[j])

\* C4: date is a primary key: from a store whose entries have pairwise
\* distinct dates, no addWeightEntry, updateWeightEntry or deleteWeightEntry
\* leaves two stored entries sharing a date.
DateIsPrimaryKey ==
    [][DistinctDates(storage.entries) => DistinctDates(storage'.entries)]_vars

\* the derived values entry i of a list should carry: deltas against the
\* latest entry dated before it, zeros when there is none
DerivedAgainstPredecessor(list, i) ==
    LET e == list[i]
        earlier == {j \in DOMAIN list :
                       Lt(TimeOf(list[j].date), TimeOf(e.date))}
    IN  IF earlier = {}
        THEN e.changeKg = Zero /\ e.changePercent = Zero /\ e.dailyChange = Zero
        ELSE \E j \in earlier :
                /\ \A k \in earlier :
                      ~Lt(TimeOf(list[j].date), TimeOf(list[k].date))
                /\ e.changeKg = Sub(e.weight, list[j].weight)
                /\ e.changePercent =
                      Mul(Div(Sub(e.weight, list[j].weight), list[j].weight),
                          RInt(100))
                /\ e.dailyChange =
                      Div(Sub(e.weight, list[j].weight),
                          MathMax(RInt(1),
                                  Sub(TimeOf(e.date), TimeOf(list[j].date))))

\* C5: every entry fetchWeightData returns carries derived fields computed
\* against its chronological predecessor (zeros for the first), whatever
\* values storage held.
FetchReturnsDerived ==
    result.op = "fetch" =>
        \A i \in DOMAIN result.returned :
            DerivedAgainstPredecessor(result.returned, i)

Parses(e) == e.date.fmt # "bad"

ParseableUpTo(list, i) == {j \in 1..i : Parses(list[j])}

---------------------------------------------------------------------------
(* recalculateEntries as a function of its argument *)

\* arguments of recalculateEntries: parseable and unparseable dates, equal
\* dates, a zero weight, derived values that are stale or already zero
DeriveDates == InputDates \cup {BadDate}

DeriveEntries ==
    {Entry(d, RInt(98), Stale, Stale, Stale) : d \in DeriveDates}
    \cup {Entry(d, RInt(100), Zero, Zero, Zero) : d \in DeriveDates}
    \cup {Entry(d, RInt(0), Stale, Stale, Stale) : d \in DeriveDates}

DeriveLists == SeqsUpTo(DeriveEntries, MaxLen)

Permuted(list, p) == [i \in 1..Len(list) |-> list[p[i]]]

InitDerive ==
    /\ storage = NoStorage
    /\ lastEntryDate = NoLast
    /\ mockWeightData = SeedData
    /\ targetStorage = NoTarget
    /\ achievementStorage = NoAchievements
    /\ clock = 0
    /\ result = NoCall
    /\ fin \in {[kind |-> "derive", entries |-> e] : e \in DeriveLists}
    /\ fout = Idle

\* once := recalculateEntries(entries)
DeriveOnce ==
    /\ fout = Idle
    /\ fout' = [kind |-> "derive", once |-> recalculateEntries(fin.entries),
                hasTwice |-> FALSE, twice |-> <<>>,
                hasPerm |-> FALSE, permutedInput |-> <<>>, perm |-> <<>>]
    /\ UNCHANGED <<storage, lastEntryDate, mockWeightData, targetStorage,
                 achievementStorage, clock, result, fin>>

\* twice := recalculateEntries(once)
DeriveTwice ==
    /\ fout # Idle
    /\ ~fout.hasTwice
    /\ fout' = [fout EXCEPT !.hasTwice = TRUE,
                            !.twice = recalculateEntries(fout.once)]
    /\ UNCHANGED <<storage, lastEntryDate, mockWeightData, targetStorage,
                 achievementStorage, clock, result, fin>>

\* perm := recalculateEntries(a permutation of entries)
DerivePermuted ==
    /\ fout # Idle
    /\ fout.hasTwice
    /\ ~fout.hasPerm
    /\ \E p \in Permutations(1..Len(fin.entries)) :
          fout' = [fout EXCEPT
                      !.hasPerm = TRUE,
                      !.permutedInput = Permuted(fin.entries, p),
                      !.perm = recalculateEntries(Permuted(fin.entries, p))]
    /\ UNCHANGED <<storage, lastEntryDate, mockWeightData, targetStorage,
                 achievementStorage, clock, result, fin>>

NextDerive == DeriveOnce \/ DeriveTwice \/ DerivePermuted

SpecDerive == InitDerive /\ [][NextDerive]_vars

\* C1: recalculateEntries(recalculateEntries(E)) equals recalculateEntries(E)
\* field for field, for any weights, dates and pre-existing derived values.
DerivationIdempotent ==
    (fout # Idle /\ fout.hasTwice) => fout.twice = fout.once

\* a series with stale derived values and an unparseable date was derived
\* twice, and its derivation assigns a non-zero delta
DerivationIdempotentWitness ==
    /\ fout # Idle
    /\ fout.hasTwice
    /\ Len(fin.entries) >= 3
    /\ \E i \in DOMAIN fin.entries : fin.entries[i].changeKg = Stale
    /\ \E i \in DOMAIN fin.entries : ~Parses(fin.entries[i])
    /\ \E i \in DOMAIN fout.once :
          fout.once[i].changeKg # Zero /\ IsFinite(fout.once[i].dailyChange)

ValidEntrySet(entries) ==
    /\ \A i \in DOMAIN entries : Parses(entries[i])
    /\ DistinctDates(entries)

Ascending(list) ==
    \A i, j \in DOMAIN list :
        i < j => Lt(TimeOf(list[i].date), TimeOf(list[j].date))

\* C2: for a valid entry set (parseable, pairwise distinct dates) every
\* permutation of the input gives the same output, in ascending date order.
SortInvariance ==
    (fout # Idle /\ fout.hasPerm /\ ValidEntrySet(fin.entries)) =>
        /\ fout.perm = fout.once
        /\ Ascending(fout.once)

\* two different orders of a valid set of two or more entries were derived,
\* the first of them not in date order
SortInvarianceWitness ==
    /\ fout # Idle
    /\ fout.hasPerm
    /\ ValidEntrySet(fin.entries)
    /\ Len(fin.entries) >= 2
    /\ fout.permutedInput # fin.entries
    /\ Lt(TimeOf(fin.entries[2].date), TimeOf(fin.entries[1].date))

---------------------------------------------------------------------------
(* Statistics: calculations.ts (src/unnamed/part_009) *)

BMI_CATEGORIES ==
    << [category |-> "Underweight",     min |-> RInt(0),  max |-> Num(185, 10)],
       [category |-> "Normal",          min |-> Num(185, 10), max |-> Num(249, 10)],
       [category |-> "Overweight",      min |-> RInt(25), max |-> Num(299, 10)],
       [category |-> "Obese",           min |-> RInt(30), max |-> Num(399, 10)],
       [category |-> "Extremely Obese", min |-> RInt(40), max |-> RInt(100)] >>

calculateBMI(weightKg, heightCm) ==
    IF Le(weightKg, Zero) \/ Le(heightCm, Zero) THEN Zero
    ELSE LET heightM == Div(heightCm, RInt(100))
         IN  Div(weightKg, Mul(heightM, heightM))

RECURSIVE BMICategoryFrom(_, _)
BMICategoryFrom(bmi, i) ==
    IF i > Len(BMI_CATEGORIES) THEN "Unknown"
    ELSE LET cat == BMI_CATEGORIES[i]
         IN  IF i = Len(BMI_CATEGORIES)
             THEN IF Ge(bmi, cat.min) THEN cat.category
                  ELSE BMICategoryFrom(bmi, i + 1)
             ELSE IF Ge(bmi, cat.min) /\ Lt(bmi, cat.max) THEN cat.category
                  ELSE BMICategoryFrom(bmi, i + 1)

getBMICategory(bmi) == BMICategoryFrom(bmi, 1)

\* differenceInDays(a, b) of two local midnights, as a number
differenceInDays(dayA, dayB) == RInt(dayA - dayB)

DaysPerWeek == 7

Week(weekStart, currentWeek) ==
    [startDate |-> weekStart,
     totalLoss |-> Sub(currentWeek[1].weight, currentWeek[Len(currentWeek)].weight),
     entries |-> currentWeek]

RECURSIVE GroupWeeksFrom(_, _, _, _, _)
GroupWeeksFrom(entries, i, weeks, currentWeek, weekStart) ==
    IF i > Len(entries)
    THEN IF currentWeek # <<>> THEN Append(weeks, Week(weekStart, currentWeek))
         ELSE weeks
    ELSE LET entry == entries[i]
             weekStartDate == parseDateFlexible(weekStart)
             entryDate == parseDateFlexible(entry.date)
         IN  IF ~weekStartDate.ok \/ ~entryDate.ok
             THEN GroupWeeksFrom(entries, i + 1, weeks, currentWeek, weekStart)
             ELSE IF entryDate.day - weekStartDate.day >= DaysPerWeek
             THEN GroupWeeksFrom(entries, i + 1,
                                 IF currentWeek # <<>>
                                 THEN Append(weeks, Week(weekStart, currentWeek))
                                 ELSE weeks,
                                 <<entry>>, entry.date)
             ELSE GroupWeeksFrom(entries, i + 1, weeks,
                                 Append(currentWeek, entry), weekStart)

groupEntriesByWeek(entries) ==
    IF entries = <<>> THEN <<>>
    ELSE GroupWeeksFrom(entries, 1, <<>>, <<>>, entries[1].date)

\* mutant: the filtered entries are left in the order given
StatsSorted_unsorted(entries) ==
    SelectSeq(entries, LAMBDA e : parseDateFlexible(e.date).ok)

\* [...entries].map(dateObj).filter(dateObj !== null).sort(by dateObj)
StatsSorted(entries) ==
    SortByDate(SelectSeq(entries, LAMBDA e : parseDateFlexible(e.date).ok))

RECURSIVE BestDayFrom(_, _, _)
BestDayFrom(sorted, i, best) ==
    IF i > Len(sorted) THEN best
    ELSE BestDayFrom(sorted, i + 1,
                     IF Lt(sorted[i].dailyChange, best.loss)
                     THEN [date |-> sorted[i].date, loss |-> sorted[i].dailyChange]
                     ELSE best)

\* mutant: a later week with the same loss replaces the best
RECURSIVE BestWeekFrom_lastOnTies(_, _, _)
BestWeekFrom_lastOnTies(weeks, i, best) ==
    IF i > Len(weeks) THEN best
    ELSE BestWeekFrom_lastOnTies(weeks, i + 1,
                      IF Le(weeks[i].totalLoss, best.loss)
                      THEN [weekStart |-> weeks[i].startDate,
                            loss |-> weeks[i].totalLoss]
                      ELSE best)

RECURSIVE BestWeekFrom(_, _, _)
BestWeekFrom(weeks, i, best) ==
    IF i > Len(weeks) THEN best
    ELSE BestWeekFrom(weeks, i + 1,
                      IF Lt(weeks[i].totalLoss, best.loss)
                      THEN [weekStart |-> weeks[i].startDate,
                            loss |-> weeks[i].totalLoss]
                      ELSE best)

RECURSIVE LongestStreakFrom(_, _, _, _)
LongestStreakFrom(sorted, i, currentStreak, longestStreak) ==
    IF i > Len(sorted) THEN longestStreak
    ELSE IF Lt(sorted[i].weight, sorted[i - 1].weight)
         THEN LongestStreakFrom(sorted, i + 1, currentStreak + 1,
                                IF currentStreak + 1 > longestStreak
                                THEN currentStreak + 1 ELSE longestStreak)
         ELSE LongestStreakFrom(sorted, i + 1, 0, longestStreak)

Threw(message) == [status |-> "error", error |-> message]

calculateStatistics(entries, targetData) ==
    IF Len(entries) = 0 THEN Threw("No weight entries available")
    ELSE
    LET sortedEntries == StatsSorted(entries)
    IN  IF Len(sortedEntries) = 0 THEN Threw("No valid weight entries available")
        ELSE
        LET lastEntry == sortedEntries[Len(sortedEntries)]
            currentWeight == lastEntry.weight
            bmi == calculateBMI(currentWeight, targetData.height)
            totalLost == Sub(targetData.startWeight, currentWeight)
            remaining == Sub(currentWeight, targetData.endWeight)
            percentageComplete == Mul(Div(totalLost, targetData.totalKg), RInt(100))
            goalStart == parseDateFlexible(targetData.startDate)
            goalEnd == parseDateFlexible(targetData.endDate)
            startDay == IF goalStart.ok THEN goalStart.day
                        ELSE parseDateFlexible(sortedEntries[1].date).day
            endDay == IF goalEnd.ok THEN goalEnd.day
                      ELSE parseDateFlexible(lastEntry.date).day
            currentDay == parseDateFlexible(lastEntry.date).day
            daysElapsed == differenceInDays(currentDay, startDay)
            daysRemaining == differenceInDays(endDay, currentDay)
            dailyAvg == Div(totalLost, MathMax(daysElapsed, RInt(1)))
            requiredDailyLoss == Div(remaining, MathMax(daysRemaining, RInt(1)))
            daysNeeded == Div(remaining, MathMax(dailyAvg, Num(1, 100)))
            projected == Add(RInt(currentDay), MathCeil(daysNeeded))
            daysAheadBehind == Sub(targetData.totalDuration,
                                   Add(daysElapsed, daysNeeded))
            weeklyData == groupEntriesByWeek(sortedEntries)
        IN  IF ~IsFinite(projected)
            THEN Threw("RangeError: Invalid time value")
            ELSE
            [status |-> "ok", error |-> "",
             current |-> [weight |-> currentWeight, bmi |-> bmi,
                          bmiCategory |-> getBMICategory(bmi)],
             progress |-> [totalLost |-> totalLost,
                           percentageComplete |-> percentageComplete,
                           daysElapsed |-> daysElapsed,
                           daysRemaining |-> daysRemaining,
                           remaining |-> remaining],
             averages |-> [daily |-> dailyAvg,
                           weekly |-> Mul(dailyAvg, RInt(7)),
                           monthly |-> Mul(dailyAvg, RInt(30))],
             target |-> [requiredDailyLoss |-> requiredDailyLoss,
                         requiredWeeklyLoss |-> Mul(requiredDailyLoss, RInt(7)),
                         projectedEndDate |-> projected,
                         onTrack |-> Ge(daysAheadBehind, Zero),
                         daysAheadBehind |-> daysAheadBehind],
             performance |->
                 [bestDay |-> BestDayFrom(sortedEntries, 1,
                                 [date |-> sortedEntries[1].date, loss |-> Zero]),
                  bestWeek |-> BestWeekFrom(weeklyData, 1,
                                 [weekStart |->
                                      IF weeklyData # <<>> THEN weeklyData[1].startDate
                                      ELSE targetData.startDate,
                                  loss |-> Zero]),
                  longestStreak |-> LongestStreakFrom(sortedEntries, 2, 0, 0)]]

---------------------------------------------------------------------------
(* calculateStatistics as a function of its arguments *)

StatDays == {0, 1} \cup {DaysPerWeek * k : k \in 1..MaxDay}

StatDates == {IsoDate(d) : d \in StatDays} \cup {BadDate}

\* the last kind of entry has a weight that is not a number, as an entry of a
\* restored backup file that lacks the field
StatEntries ==
    {Entry(d, RInt(98), RInt(-2), RInt(-2), RInt(-1)) : d \in StatDates}
    \cup {Entry(d, RInt(100), Zero, Zero, Zero) : d \in StatDates}
    \cup {Entry(d, NaN, Zero, Zero, Zero) : d \in StatDates}

StatLists == SeqsUpTo(StatEntries, MaxStatLen)

Goals ==
    [startDate : {IsoDate(0), IsoDate(7), BadDate},
     startWeight : {RInt(100)},
     endDate : {IsoDate(14)},
     endWeight : {RInt(90)},
     totalDuration : {RInt(14)},
     totalKg : {RInt(10), RInt(0), RInt(-5)},
     height : {RInt(170), RInt(0)}]

InitStats ==
    /\ storage = NoStorage
    /\ lastEntryDate = NoLast
    /\ mockWeightData = SeedData
    /\ targetStorage = NoTarget
    /\ achievementStorage = NoAchievements
    /\ clock = 0
    /\ result = NoCall
    /\ fin \in {[kind |-> "stats", entries |-> e, targetData |-> g] :
                   e \in StatLists, g \in Goals}
    /\ fout = Idle

ComputeStatistics ==
    /\ fout = Idle
    /\ fout' = [kind |-> "stats",
                res |-> calculateStatistics(fin.entries, fin.targetData)]
    /\ UNCHANGED <<storage, lastEntryDate, mockWeightData, targetStorage,
                 achievementStorage, clock, result, fin>>

NextStats == ComputeStatistics

SpecStats == InitStats /\ [][NextStats]_vars

\* C7: calculateStatistics throws exactly when no entry with a parseable date
\* remains (empty input, or every date unparseable); for every input with a
\* parseable-date entry it returns a Statistics value.
StatisticsThrowsIffNoValidEntry ==
    fout # Idle =>
        (fout.res.status = "error"
            <=> ~\E i \in DOMAIN fin.entries : Parses(fin.entries[i]))

StatNumbers(res) ==
    {res.current.bmi, res.progress.totalLost, res.progress.percentageComplete,
     res.progress.daysElapsed, res.progress.daysRemaining,
     res.progress.remaining, res.averages.daily, res.averages.weekly,
     res.averages.monthly, res.target.requiredDailyLoss,
     res.target.requiredWeeklyLoss, res.target.projectedEndDate,
     res.target.daysAheadBehind}

\* C9: for every goal and every non-empty series of finite weights no division
\* of calculateStatistics is by zero: no NaN or Infinity appears in the result.
StatisticsNeverDivideByZero ==
    (/\ fout # Idle
     /\ fout.res.status = "ok"
     /\ \A i \in DOMAIN fin.entries : IsFinite(fin.entries[i].weight)) =>
        \A x \in StatNumbers(fout.res) : IsFinite(x)

---------------------------------------------------------------------------
(* getBMICategory(calculateBMI(weight, height)) as a function of its arguments *)

MinWeightKg == 40

MaxWeightKg == 200

\* weights the entry form accepts, in steps of 0.1 kg, and a zero weight
BMIWeights ==
    {Num(t, 10) : t \in (10 * MinWeightKg)..(10 * MaxWeightKg)} \cup {Zero}

BMIHeights == {RInt(0), RInt(150), RInt(170), RInt(200)}

BMILabels == {"Underweight", "Normal", "Overweight", "Obese", "Extremely Obese"}

InitBMI ==
    /\ storage = NoStorage
    /\ lastEntryDate = NoLast
    /\ mockWeightData = SeedData
    /\ targetStorage = NoTarget
    /\ achievementStorage = NoAchievements
    /\ clock = 0
    /\ result = NoCall
    /\ fin \in {[kind |-> "bmi", weight |-> w, height |-> h] :
                   w \in BMIWeights, h \in BMIHeights}
    /\ fout = Idle

ComputeBMICategory ==
    /\ fout = Idle
    /\ LET bmi == calculateBMI(fin.weight, fin.height)
       IN  fout' = [kind |-> "bmi", bmi |-> bmi, category |-> getBMICategory(bmi)]
    /\ UNCHANGED <<storage, lastEntryDate, mockWeightData, targetStorage,
                 achievementStorage, clock, result, fin>>

NextBMI == ComputeBMICategory

SpecBMI == InitBMI /\ [][NextBMI]_vars

\* C10: for weight > 0 and height > 0 getBMICategory(calculateBMI(..)) is one
\* of the five labels, never 'Unknown', and 18.5, 25, 30 and 40 fall into the
\* higher band.
BMIBandingTotal ==
    (fout # Idle /\ Lt(Zero, fin.weight) /\ Lt(Zero, fin.height)) =>
        /\ fout.category \in BMILabels
        /\ fout.bmi = Num(185, 10) => fout.category = "Normal"
        /\ fout.bmi = RInt(25) => fout.category = "Overweight"
        /\ fout.bmi = RInt(30) => fout.category = "Obese"
        /\ fout.bmi = RInt(40) => fout.category = "Extremely Obese"

---------------------------------------------------------------------------
(* Analytics: services/aiAnalyticsService.ts, the trend and insight
   functions, and the entry streak (src/unnamed/part_006) *)

NoRecordedAt == [fmt |-> "none", hour |-> 0]

RecordedAtHour(h) == [fmt |-> "datetime", hour |-> h]

\* an entry with its optional recordedAt timestamp
Logged(date, weight, recordedAt) ==
    [date |-> date, weight |-> weight, changePercent |-> Zero,
     changeKg |-> Zero, dailyChange |-> Zero, recordedAt |-> recordedAt]

WeightsOf(entries) == [i \in 1..Len(entries) |-> entries[i].weight]

\* mutant: a window shorter than n is averaged too
MovingAverage_shortWindow(sortedEntries, index, n) ==
    LET from == IF index - n + 1 < 1 THEN 1 ELSE index - n + 1
    IN  Div(Sum(WeightsOf(SubSeq(sortedEntries, from, index))),
            RInt(index - from + 1))

MovingAverage(sortedEntries, index, n) ==
    IF index >= n
    THEN Div(Sum(WeightsOf(SubSeq(sortedEntries, index - n + 1, index))), RInt(n))
    ELSE sortedEntries[index].weight

calculateMovingAverages(entries) ==
    LET sortedEntries == SortByDate(entries)
    IN  [index \in 1..Len(sortedEntries) |->
            [date |-> sortedEntries[index].date,
             weight |-> sortedEntries[index].weight,
             ma7 |-> MovingAverage(sortedEntries, index, 7),
             ma14 |-> MovingAverage(sortedEntries, index, 14),
             ma30 |-> MovingAverage(sortedEntries, index, 30)]]

calculateAverageDailyLoss(entries) ==
    IF Len(entries) < 2 THEN Zero
    ELSE LET weightChange == Sub(entries[1].weight, entries[Len(entries)].weight)
             days == Sub(TimeOf(entries[Len(entries)].date), TimeOf(entries[1].date))
         IN  IF Lt(Zero, days) THEN Div(weightChange, days) ELSE Zero

Trend(trend, confidence) == [trend |-> trend, confidence |-> confidence]

\* mutant: the plateau test is missing
TrendOf_noPlateau(entries) ==
    LET sortedEntries == SortByDate(entries)
        difference ==
            Sub(calculateAverageDailyLoss(slice(sortedEntries, -7, Len(sortedEntries))),
                calculateAverageDailyLoss(slice(sortedEntries, -14, -7)))
    IN  IF Lt(MathAbs(difference), Num(5, 100)) THEN Trend("steady", Num(8, 10))
        ELSE IF Lt(difference, Num(-1, 10)) THEN Trend("accelerating", Num(85, 100))
        ELSE IF Lt(Num(1, 10), difference) THEN Trend("slowing", Num(85, 100))
        ELSE Trend("steady", Num(75, 100))

\* analyzeTrend past its guard on the number of entries
TrendOf(entries) ==
    LET sortedEntries == SortByDate(entries)
        recent7 == slice(sortedEntries, -7, Len(sortedEntries))
        previous7 == slice(sortedEntries, -14, -7)
        difference == Sub(calculateAverageDailyLoss(recent7),
                          calculateAverageDailyLoss(previous7))
    IN  IF Lt(MathAbs(difference), Num(5, 100)) THEN Trend("steady", Num(8, 10))
        ELSE IF Lt(difference, Num(-1, 10)) THEN Trend("accelerating", Num(85, 100))
        ELSE IF Lt(Num(1, 10), difference) THEN Trend("slowing", Num(85, 100))
        ELSE LET twoWeekLoss ==
                     Sub(sortedEntries[Len(sortedEntries) - 13].weight,
                         sortedEntries[Len(sortedEntries)].weight)
             IN  IF Lt(twoWeekLoss, Num(5, 10)) THEN Trend("plateauing", Num(9, 10))
                 ELSE Trend("steady", Num(75, 100))

\* mutant: the guard on fewer than 14 entries is missing
analyzeTrend_noGuard(entries) == TrendOf(entries)

analyzeTrend(entries) ==
    IF Len(entries) < 14 THEN Trend("steady", Num(5, 10))
    ELSE TrendOf(entries)

calculateStandardDeviation(values) ==
    LET avg == Div(Sum(values), RInt(Len(values)))
        squareDiffs == [i \in 1..Len(values) |->
                           Mul(Sub(values[i], avg), Sub(values[i], avg))]
    IN  MathSqrt(Div(Sum(squareDiffs), RInt(Len(values))))

Volatility(averageDailyChange, stdDevDailyChange, averageAbsoluteChange) ==
    [averageDailyChange |-> averageDailyChange,
     stdDevDailyChange |-> stdDevDailyChange,
     averageAbsoluteChange |-> averageAbsoluteChange]

calculateVolatilityStats(entries) ==
    IF Len(entries) < 2 THEN Volatility(Zero, Zero, Zero)
    ELSE
    LET sortedEntries == SortByDate(entries)
        dailyChanges ==
            [k \in 1..(Len(sortedEntries) - 1) |->
                LET prev == sortedEntries[k]
                    curr == sortedEntries[k + 1]
                    days == MathMax(RInt(1), Sub(TimeOf(curr.date), TimeOf(prev.date)))
                IN  Div(Sub(prev.weight, curr.weight), days)]
        count == RInt(Len(dailyChanges))
        averageDailyChange == Div(Sum(dailyChanges), count)
        averageAbsoluteChange ==
            Div(Sum([k \in 1..Len(dailyChanges) |-> MathAbs(dailyChanges[k])]), count)
        variance ==
            Div(Sum([k \in 1..Len(dailyChanges) |->
                        Mul(Sub(dailyChanges[k], averageDailyChange),
                            Sub(dailyChanges[k], averageDailyChange))]), count)
    IN  Volatility(averageDailyChange, MathSqrt(variance), averageAbsoluteChange)

\* startOfWeek / endOfWeek with the week starting on Sunday; day 0 is a Sunday
startOfWeek(day) == day - (day % DaysPerWeek)

endOfWeek(day) == startOfWeek(day) + DaysPerWeek - 1

RECURSIVE WeekIndexFrom(_, _, _)
WeekIndexFrom(weeks, key, i) ==
    IF i > Len(weeks) THEN 0
    ELSE IF weeks[i].start = key THEN i
    ELSE WeekIndexFrom(weeks, key, i + 1)

RECURSIVE WeeksFrom(_, _, _)
WeeksFrom(sortedEntries, i, weeks) ==
    IF i > Len(sortedEntries) THEN weeks
    ELSE LET entry == sortedEntries[i]
             entryDate == parseDateFlexible(entry.date)
         IN  IF ~entryDate.ok THEN WeeksFrom(sortedEntries, i + 1, weeks)
             ELSE LET weekStart == IsoDate(startOfWeek(entryDate.day))
                      weekEnd == IsoDate(endOfWeek(entryDate.day))
                      existing == WeekIndexFrom(weeks, weekStart, 1)
                  IN  IF existing = 0
                      THEN WeeksFrom(sortedEntries, i + 1,
                               Append(weeks, [start |-> weekStart, end |-> weekEnd,
                                              startWeight |-> entry.weight,
                                              endWeight |-> entry.weight]))
                      ELSE WeeksFrom(sortedEntries, i + 1,
                               [weeks EXCEPT ![existing].endWeight = entry.weight])

calculateWeeklyDeltas(entries) ==
    IF Len(entries) < 2 THEN <<>>
    ELSE LET weeks == WeeksFrom(SortByDate(entries), 1, <<>>)
         IN  [k \in 1..Len(weeks) |->
                 [weekStart |-> weeks[k].start, weekEnd |-> weeks[k].end,
                  changeKg |-> Sub(weeks[k].startWeight, weeks[k].endWeight)]]

Periods == <<"morning", "afternoon", "evening", "night">>

\* the bucket an entry's recordedAt hour falls into; "none" when the entry has
\* no recordedAt or it does not parse
PeriodOf(entry) ==
    IF entry.recordedAt.fmt # "datetime" THEN "none"
    ELSE LET hour == entry.recordedAt.hour
         IN  IF hour >= 5 /\ hour < 11 THEN "morning"
             ELSE IF hour >= 11 /\ hour < 16 THEN "afternoon"
             ELSE IF hour >= 16 /\ hour < 22 THEN "evening"
             ELSE "night"

Bucket(entries, period) ==
    WeightsOf(SelectSeq(entries, LAMBDA e : PeriodOf(e) = period))

NoNumber == [present |-> FALSE, value |-> Zero]

avg(values) ==
    IF Len(values) > 0
    THEN [present |-> TRUE, value |-> Div(Sum(values), RInt(Len(values)))]
    ELSE NoNumber

\* counts.sort((a, b) => b.count - a.count)[0]: the first period with the
\* largest bucket
RECURSIVE MostFrom(_, _, _)
MostFrom(entries, i, best) ==
    IF i > Len(Periods) THEN best
    ELSE MostFrom(entries, i + 1,
                  IF Len(Bucket(entries, Periods[i])) > Len(Bucket(entries, best))
                  THEN Periods[i] ELSE best)

calculateTimeOfDayStats(entries) ==
    LET most == MostFrom(entries, 2, Periods[1])
    IN  [morningAvg |-> avg(Bucket(entries, "morning")),
         afternoonAvg |-> avg(Bucket(entries, "afternoon")),
         eveningAvg |-> avg(Bucket(entries, "evening")),
         nightAvg |-> avg(Bucket(entries, "night")),
         dominantPeriod |->
             IF Len(Bucket(entries, most)) >= 3 THEN most ELSE "mixed"]

NoChangePoint == [present |-> FALSE, delta |-> Zero, direction |-> ""]

\* detectChangePoint past its guard on the number of entries
ChangePointOf(entries) ==
    LET sorted == SortByDate(entries)
        recentLoss == calculateAverageDailyLoss(slice(sorted, -14, Len(sorted)))
        previousLoss == calculateAverageDailyLoss(slice(sorted, -28, -14))
        delta == Sub(recentLoss, previousLoss)
    IN  IF Lt(MathAbs(delta), Num(5, 100)) THEN NoChangePoint
        ELSE [present |-> TRUE, delta |-> delta,
              direction |->
                  IF Lt(Zero, delta) THEN "accelerating"
                  ELSE IF Lt(recentLoss, Zero) /\ Lt(Zero, previousLoss)
                       THEN "reversing"
                       ELSE "slowing"]

detectChangePoint(entries) ==
    IF Len(entries) < 28 THEN NoChangePoint ELSE ChangePointOf(entries)

\* the 'yyyy-MM-dd' days of the entries whose date parses (a Set)
getUniqueEntryDays(entries) ==
    {toISODate(entries[i].date).date :
        i \in {j \in DOMAIN entries : parseDateFlexible(entries[j].date).ok}}

RECURSIVE StreakFrom(_, _)
StreakFrom(checkDay, daysSet) ==
    IF IsoDate(checkDay) \in daysSet THEN 1 + StreakFrom(checkDay - 1, daysSet)
    ELSE 0

\* mutant: a stale latest day does not break the streak
calculateEntryStreak_neverBroken(entries, today) ==
    IF Len(entries) = 0 THEN 0
    ELSE LET uniqueDays == getUniqueEntryDays(entries)
             sortedDays == {parseDateFlexible(d).day : d \in uniqueDays}
         IN  IF sortedDays = {} THEN 0
             ELSE StreakFrom(CHOOSE d \in sortedDays : \A e \in sortedDays : e <= d,
                             uniqueDays)

\* today is the day new Date() falls on
calculateEntryStreak(entries, today) ==
    IF Len(entries) = 0 THEN 0
    ELSE LET uniqueDays == getUniqueEntryDays(entries)
             sortedDays == {parseDateFlexible(d).day : d \in uniqueDays}
         IN  IF sortedDays = {} THEN 0
             ELSE LET latestEntry == CHOOSE d \in sortedDays :
                                         \A e \in sortedDays : e <= d
                  IN  IF today - latestEntry > 1 THEN 0
                      ELSE StreakFrom(latestEntry, uniqueDays)

getParsedEntries(entries) ==
    SortByDate(SelectSeq(entries, LAMBDA e : parseDateFlexible(e.date).ok))

Anomaly(current, type, severity) ==
    [date |-> current.date, weight |-> current.weight, type |-> type,
     severity |-> severity]

\* mutant: the loop runs to the last entry
RECURSIVE AnomaliesFrom_toLast(_, _, _)
AnomaliesFrom_toLast(sortedEntries, i, anomalies) ==
    IF i > Len(sortedEntries) THEN anomalies
    ELSE
    LET current == sortedEntries[i]
        previous == WeightsOf(SubSeq(sortedEntries,
                                     IF i - 3 < 1 THEN 1 ELSE i - 3, i - 1))
        avgPrevious == Div(Sum(previous), RInt(Len(previous)))
        stdDev == calculateStandardDeviation(previous)
        deviation == MathAbs(Sub(current.weight, avgPrevious))
        severity == IF Lt(Mul(RInt(3), stdDev), deviation) THEN "high" ELSE "medium"
        spike == IF Lt(Add(avgPrevious, Mul(Num(25, 10), stdDev)), current.weight)
                 THEN <<Anomaly(current, "spike", severity)>> ELSE <<>>
        drop == IF Lt(current.weight, Sub(avgPrevious, Mul(Num(25, 10), stdDev)))
                THEN <<Anomaly(current, "drop", severity)>> ELSE <<>>
    IN  AnomaliesFrom_toLast(sortedEntries, i + 1, anomalies \o spike \o drop)

RECURSIVE AnomaliesFrom(_, _, _)
AnomaliesFrom(sortedEntries, i, anomalies) ==
    IF i >= Len(sortedEntries) THEN anomalies
    ELSE
    LET current == sortedEntries[i]
        previous == WeightsOf(SubSeq(sortedEntries,
                                     IF i - 3 < 1 THEN 1 ELSE i - 3, i - 1))
        avgPrevious == Div(Sum(previous), RInt(Len(previous)))
        stdDev == calculateStandardDeviation(previous)
        deviation == MathAbs(Sub(current.weight, avgPrevious))
        severity == IF Lt(Mul(RInt(3), stdDev), deviation) THEN "high" ELSE "medium"
        spike == IF Lt(Add(avgPrevious, Mul(Num(25, 10), stdDev)), current.weight)
                 THEN <<Anomaly(current, "spike", severity)>> ELSE <<>>
        drop == IF Lt(current.weight, Sub(avgPrevious, Mul(Num(25, 10), stdDev)))
                THEN <<Anomaly(current, "drop", severity)>> ELSE <<>>
    IN  AnomaliesFrom(sortedEntries, i + 1, anomalies \o spike \o drop)

\* mutant: the loop starts at the second entry
detectAnomalies_fromSecond(entries) ==
    IF Len(entries) < 5 THEN <<>>
    ELSE AnomaliesFrom(getParsedEntries(entries), 2, <<>>)

detectAnomalies(entries) ==
    IF Len(entries) < 5 THEN <<>>
    ELSE AnomaliesFrom(getParsedEntries(entries), 3, <<>>)

calculateWeeklyLossRate(entries) ==
    IF Len(entries) < 2 THEN Zero
    ELSE LET sorted == getParsedEntries(entries)
         IN  IF Len(sorted) < 2 THEN Zero
             ELSE LET daysDiff == parseDateFlexible(sorted[Len(sorted)].date).day
                                  - parseDateFlexible(sorted[1].date).day
                      weightDiff == Sub(sorted[1].weight, sorted[Len(sorted)].weight)
                  IN  IF daysDiff = 0 THEN Zero
                      ELSE MathMax(Zero, Mul(Div(weightDiff, RInt(daysDiff)), RInt(7)))

calculateConsistency(entries) ==
    IF Len(entries) < 2 THEN Zero
    ELSE LET weights == WeightsOf(entries)
             changes == [i \in 1..(Len(weights) - 1) |->
                            MathAbs(Sub(weights[i + 1], weights[i]))]
             avgChange == Div(Sum(changes), RInt(Len(changes)))
             stdDev == calculateStandardDeviation(changes)
         IN  IF stdDev = Zero THEN RInt(1)
             ELSE MathMax(Zero, Sub(RInt(1), Div(stdDev, avgChange)))

\* addDays(new Date(), amount): setDate truncates the amount; an Invalid Date
\* (NaN) for an amount that is not finite
addDays(day, amount) ==
    IF ~IsFinite(amount) THEN NaN ELSE Add(RInt(day), MathTrunc(amount))

Scenario(date, weeklyLoss) == [date |-> date, weeklyLoss |-> weeklyLoss]

\* today is the day new Date() falls on
generatePredictiveAnalysis(entries, targetData, today) ==
    LET sortedEntries == getParsedEntries(entries)
    IN  IF Len(sortedEntries) = 0
        THEN [projectedGoalDate |-> RInt(today),
              confidenceLevel |-> Zero,
              recommendedPace |-> Num(75, 100),
              riskAssessment |-> "moderate",
              alternativeScenarios |->
                  [conservative |-> Scenario(RInt(today), Num(5, 10)),
                   recommended |-> Scenario(RInt(today), Num(75, 100)),
                   aggressive |-> Scenario(RInt(today), RInt(1))]]
        ELSE
        LET recentEntries == slice(sortedEntries, -14, Len(sortedEntries))
            avgWeeklyLoss == calculateWeeklyLossRate(recentEntries)
            currentWeight == sortedEntries[Len(sortedEntries)].weight
            remainingLoss == Sub(currentWeight, targetData.endWeight)
            conservativeWeeks == Div(remainingLoss, Num(5, 10))
            recommendedWeeks == Div(remainingLoss, Num(75, 100))
            aggressiveWeeks == Div(remainingLoss, RInt(1))
            projectedWeeks == IF Lt(Zero, avgWeeklyLoss)
                              THEN Div(remainingLoss, avgWeeklyLoss)
                              ELSE recommendedWeeks
            consistency == calculateConsistency(recentEntries)
            confidenceLevel == MathMin(RInt(100),
                                       MathMax(RInt(20), Mul(consistency, RInt(100))))
        IN  [projectedGoalDate |-> addDays(today, Mul(projectedWeeks, RInt(7))),
             confidenceLevel |-> confidenceLevel,
             recommendedPace |-> Num(75, 100),
             riskAssessment |->
                 IF Lt(Num(12, 10), avgWeeklyLoss) THEN "aggressive"
                 ELSE IF Lt(Num(8, 10), avgWeeklyLoss) THEN "moderate"
                 ELSE "healthy",
             alternativeScenarios |->
                 [conservative |-> Scenario(addDays(today, Mul(conservativeWeeks, RInt(7))),
                                            Num(5, 10)),
                  recommended |-> Scenario(addDays(today, Mul(recommendedWeeks, RInt(7))),
                                           Num(75, 100)),
                  aggressive |-> Scenario(addDays(today, Mul(aggressiveWeeks, RInt(7))),
                                          RInt(1))]]

---------------------------------------------------------------------------
(* The analytics as functions of their arguments *)

AnalyticsDates == InputDates \cup {BadDate}

RecordedAts == {NoRecordedAt, RecordedAtHour(8)}

AnalyticsEntries ==
    {Logged(d, w, r) : d \in AnalyticsDates, w \in Weights, r \in RecordedAts}

\* n daily entries from 100 kg: the first n - k lose early/10 kg a day, the
\* last k lose late/10 kg a day
Ramp(n, k, early, late) ==
    [i \in 1..n |->
        Logged(IsoDate(i - 1),
               IF i <= n - k
               THEN Num(1000 - early * (i - 1), 10)
               ELSE Num(1000 - early * (n - k - 1) - late * (i - (n - k)), 10),
               RecordedAtHour(8))]

Rates == {0, 1, 3}

Reversed(s) == [i \in 1..Len(s) |-> s[Len(s) + 1 - i]]

ForwardSeries ==
    {Ramp(n, 7, early, late) : n \in {5, 14, 31}, early \in Rates, late \in Rates}
    \cup {Ramp(28, 14, early, late) : early \in Rates, late \in Rates}

\* as Ramp, the rates in hundredths of a kilogram a day
FineRamp(n, k, early, late) ==
    [i \in 1..n |->
        Logged(IsoDate(i - 1),
               IF i <= n - k
               THEN Num(10000 - early * (i - 1), 100)
               ELSE Num(10000 - early * (n - k - 1) - late * (i - (n - k)), 100),
               RecordedAtHour(8))]

FineRates == {-7, 0, 7, 30, 37}

TrendSeries ==
    {FineRamp(n, 7, early, late) :
        n \in {13, 14, 15}, early \in FineRates, late \in FineRates}

\* the daily series in chronological order and latest first
LongSeries ==
    ForwardSeries \cup TrendSeries
    \cup {Reversed(s) : s \in ForwardSeries \cup TrendSeries}

SparseDays == 0..(MaxDay + 3)

\* one morning entry of 100 kg on each of the given days, latest first
RECURSIVE OnDays(_)
OnDays(days) ==
    IF days = {} THEN <<>>
    ELSE LET last == CHOOSE d \in days : \A e \in days : e <= d
         IN  <<Logged(IsoDate(last), RInt(100), RecordedAtHour(8))>>
             \o OnDays(days \ {last})

\* series with gaps between the logged days
SparseSeries == {OnDays(days) : days \in SUBSET SparseDays}

\* 10 daily entries alternating 0.2 kg above and below 100 kg, the entry at
\* position spikeAt 5 kg above 100 kg instead
Oscillating(spikeAt, phase) ==
    [i \in 1..10 |->
        Logged(IsoDate(i - 1),
               IF i = spikeAt THEN RInt(105)
               ELSE IF (i + phase) % 2 = 0 THEN Num(1002, 10) ELSE Num(998, 10),
               RecordedAtHour(8))]

SpikeSeries == {Oscillating(spikeAt, phase) : spikeAt \in 1..10, phase \in {0, 1}}

\* the series with the date of its k-th entry unparseable
Damaged(s, k) == [s EXCEPT ![k].date = BadDate]

\* series of 5 and of 10 entries of which one or two have no parseable date
DamagedSeries ==
    LET whole == {Ramp(5, 2, early, late) : early \in Rates, late \in {0, 30}}
                 \cup {Oscillating(spikeAt, 0) : spikeAt \in {4, 9, 10}}
    IN  {Damaged(s, k) : s \in whole, k \in {1, 2}}
        \cup {Damaged(Damaged(s, 1), 2) : s \in whole}

AnalyticsLists ==
    SeqsUpTo(AnalyticsEntries, MaxSeriesLen) \cup LongSeries \cup SparseSeries
    \cup SpikeSeries \cup DamagedSeries

AnalyticsGoal ==
    [startDate |-> IsoDate(0), startWeight |-> RInt(100), endDate |-> IsoDate(14),
     endWeight |-> RInt(90), totalDuration |-> RInt(14), totalKg |-> RInt(10),
     height |-> RInt(170)]

Todays == {1, 3, 5}

InitAnalytics ==
    /\ storage = NoStorage
    /\ lastEntryDate = NoLast
    /\ mockWeightData = SeedData
    /\ targetStorage = NoTarget
    /\ achievementStorage = NoAchievements
    /\ clock = 0
    /\ result = NoCall
    /\ fin \in {[kind |-> "analytics", entries |-> e, targetData |-> AnalyticsGoal,
                 today |-> t] : e \in AnalyticsLists, t \in Todays}
    /\ fout = Idle

Returned(fn, res) ==
    /\ fout = Idle
    /\ fout' = [kind |-> "analytics", fn |-> fn, res |-> res]
    /\ UNCHANGED <<storage, lastEntryDate, mockWeightData, targetStorage,
                 achievementStorage, clock, result, fin>>

CallMovingAverages ==
    Returned("calculateMovingAverages", calculateMovingAverages(fin.entries))

CallWeeklyDeltas ==
    Returned("calculateWeeklyDeltas", calculateWeeklyDeltas(fin.entries))

CallDetectAnomalies ==
    Returned("detectAnomalies", detectAnomalies(fin.entries))

CallAnalyzeTrend ==
    Returned("analyzeTrend", analyzeTrend(fin.entries))

CallVolatilityStats ==
    Returned("calculateVolatilityStats", calculateVolatilityStats(fin.entries))

CallDetectChangePoint ==
    Returned("detectChangePoint", detectChangePoint(fin.entries))

CallEntryStreak ==
    Returned("calculateEntryStreak", calculateEntryStreak(fin.entries, fin.today))

CallTimeOfDayStats ==
    Returned("calculateTimeOfDayStats", calculateTimeOfDayStats(fin.entries))

CallPredictiveAnalysis ==
    Returned("generatePredictiveAnalysis",
             generatePredictiveAnalysis(fin.entries, fin.targetData, fin.today))

NextAnalytics ==
    \/ CallMovingAverages
    \/ CallWeeklyDeltas
    \/ CallDetectAnomalies
    \/ CallAnalyzeTrend
    \/ CallVolatilityStats
    \/ CallDetectChangePoint
    \/ CallEntryStreak
    \/ CallTimeOfDayStats
    \/ CallPredictiveAnalysis

SpecAnalytics == InitAnalytics /\ [][NextAnalytics]_vars

DefaultProjection(today) ==
    [projectedGoalDate |-> RInt(today),
     confidenceLevel |-> Zero,
     recommendedPace |-> Num(75, 100),
     riskAssessment |-> "moderate",
     alternativeScenarios |->
         [conservative |-> Scenario(RInt(today), Num(5, 10)),
          recommended |-> Scenario(RInt(today), Num(75, 100)),
          aggressive |-> Scenario(RInt(today), RInt(1))]]

\* C8: on an empty entry list every component other than calculateStatistics
\* returns its neutral default: an empty list from calculateMovingAverages,
\* calculateWeeklyDeltas and detectAnomalies, steady with confidence 0.5 from
\* analyzeTrend, all zeros from calculateVolatilityStats, null from
\* detectChangePoint, 0 from calculateEntryStreak, null averages and 'mixed'
\* from calculateTimeOfDayStats, the default projection from
\* generatePredictiveAnalysis.
EmptyListDefaults ==
    (fout # Idle /\ fin.entries = <<>>) =>
        /\ fout.fn \in {"calculateMovingAverages", "calculateWeeklyDeltas",
                        "detectAnomalies"} => fout.res = <<>>
        /\ fout.fn = "analyzeTrend" => fout.res = Trend("steady", Num(1, 2))
        /\ fout.fn = "calculateVolatilityStats" =>
               fout.res = Volatility(Zero, Zero, Zero)
        /\ fout.fn = "detectChangePoint" => ~fout.res.present
        /\ fout.fn = "calculateEntryStreak" => fout.res = 0
        /\ fout.fn = "calculateTimeOfDayStats" =>
               /\ ~fout.res.morningAvg.present
               /\ ~fout.res.afternoonAvg.present
               /\ ~fout.res.eveningAvg.present
               /\ ~fout.res.nightAvg.present
               /\ fout.res.dominantPeriod = "mixed"
        /\ fout.fn = "generatePredictiveAnalysis" =>
               fout.res = DefaultProjection(fin.today)

\* analyzeTrend has answered for an empty list
EmptyListDefaultsWitness ==
    /\ fout # Idle
    /\ fin.entries = <<>>
    /\ fout.fn = "analyzeTrend"
    /\ fout.res.trend = "steady"

---------------------------------------------------------------------------
(* calculateEntryStreak *)

\* the calendar days on which the list has an entry
LoggedDays(entries) ==
    {parseDateFlexible(entries[i].date).day :
        i \in {j \in DOMAIN entries : Parses(entries[j])}}

MostRecent(days) == CHOOSE d \in days : \A e \in days : e <= d

\* length of the maximal run of consecutive days that ends at last
RunEndingAt(days, last) ==
    CHOOSE k \in 1..Cardinality(days) :
        /\ \A j \in 0..(k - 1) : (last - j) \in days
        /\ (last - k) \notin days

\* C11: calculateEntryStreak counts unique calendar days: it returns 0 when
\* the most recent logged day is more than 1 day before today, and otherwise
\* the length of the maximal run of consecutive days ending at that day.
EntryStreakRule ==
    (/\ fout # Idle
     /\ fout.fn = "calculateEntryStreak"
     /\ LoggedDays(fin.entries) # {}) =>
        LET days == LoggedDays(fin.entries)
            latest == MostRecent(days)
        IN  fout.res = IF fin.today - latest > 1 THEN 0
                       ELSE RunEndingAt(days, latest)

\* two entries yesterday, one today and one three days ago: a streak of 2
EntryStreakWitness ==
    /\ fout # Idle
    /\ fout.fn = "calculateEntryStreak"
    /\ LoggedDays(fin.entries) \in {{fin.today - 1, fin.today},
                                    {fin.today - 3, fin.today - 1, fin.today}}
    /\ fout.res = 2

---------------------------------------------------------------------------
(* calculateMovingAverages *)

Windows == {7, 14, 30}

MaOf(row, n) == IF n = 7 THEN row.ma7 ELSE IF n = 14 THEN row.ma14 ELSE row.ma30

SameReading(a, b) == a.date = b.date /\ a.weight = b.weight

\* rows and entries hold the same (date, weight) readings, each as often
SameReadings(rows, entries) ==
    /\ Len(rows) = Len(entries)
    /\ \A i \in DOMAIN entries :
           Cardinality({j \in DOMAIN rows : SameReading(rows[j], entries[i])})
           = Cardinality({j \in DOMAIN entries : SameReading(entries[j], entries[i])})

\* C12: calculateMovingAverages returns one row per input entry in ascending
\* date order; for N in {7, 14, 30} the row at index i has maN = mean of the
\* weights of rows i-N+1..i when at least N rows end at i, else its own weight.
MovingAverageRule ==
    (fout # Idle /\ fout.fn = "calculateMovingAverages") =>
        LET rows == fout.res
        IN  /\ SameReadings(rows, fin.entries)
            /\ (\A i \in DOMAIN rows : Parses(rows[i])) =>
                   \A i \in 1..(Len(rows) - 1) :
                       parseDateFlexible(rows[i].date).day
                           <= parseDateFlexible(rows[i + 1].date).day
            /\ \A i \in DOMAIN rows : \A n \in Windows :
                   MaOf(rows[i], n) =
                       IF i >= n
                       THEN Div(Sum([k \in 1..n |-> rows[i - n + k].weight]), RInt(n))
                       ELSE rows[i].weight

\* a series given latest first whose 30th row carries a true 30-row mean
MovingAverageWitness ==
    /\ fout # Idle
    /\ fout.fn = "calculateMovingAverages"
    /\ Len(fout.res) >= 30
    /\ fin.entries[1].date = IsoDate(Len(fin.entries) - 1)
    /\ fout.res[1].date = IsoDate(0)
    /\ fout.res[30].ma30 # fout.res[30].weight
    /\ fout.res[6].ma7 = fout.res[6].weight
    /\ fout.res[7].ma7 # fout.res[7].weight

---------------------------------------------------------------------------
(* analyzeTrend *)

\* averageDailyLoss(most recent 7) - averageDailyLoss(preceding 7) of a
\* list of at least 14 entries
TrendDifference(entries) ==
    LET sorted == SortByDate(entries)
        n == Len(sorted)
    IN  Sub(calculateAverageDailyLoss(SubSeq(sorted, n - 6, n)),
            calculateAverageDailyLoss(SubSeq(sorted, n - 13, n - 7)))

TwoWeekLoss(entries) ==
    LET sorted == SortByDate(entries)
    IN  Sub(sorted[Len(sorted) - 13].weight, sorted[Len(sorted)].weight)

\* C13: analyzeTrend returns steady/0.5 below 14 entries; otherwise the first
\* matching rule on difference: |difference| < 0.05 steady/0.8; < -0.1
\* accelerating/0.85; > 0.1 slowing/0.85; else plateauing/0.9 when the 14th
\* from last weight minus the last weight is < 0.5, else steady/0.75.
TrendRule ==
    (fout # Idle /\ fout.fn = "analyzeTrend") =>
        fout.res =
            IF Len(fin.entries) < 14 THEN Trend("steady", Num(1, 2))
            ELSE LET difference == TrendDifference(fin.entries)
                 IN  IF Lt(MathAbs(difference), Num(5, 100))
                     THEN Trend("steady", Num(8, 10))
                     ELSE IF Lt(difference, Num(-1, 10))
                     THEN Trend("accelerating", Num(85, 100))
                     ELSE IF Lt(Num(1, 10), difference)
                     THEN Trend("slowing", Num(85, 100))
                     ELSE IF Lt(TwoWeekLoss(fin.entries), Num(5, 10))
                     THEN Trend("plateauing", Num(9, 10))
                     ELSE Trend("steady", Num(75, 100))

\* a series given latest first that lands in the plateau branch
TrendWitness ==
    /\ fout # Idle
    /\ fout.fn = "analyzeTrend"
    /\ Len(fin.entries) >= 14
    /\ fin.entries[1].date = IsoDate(Len(fin.entries) - 1)
    /\ fout.res = Trend("plateauing", Num(9, 10))

---------------------------------------------------------------------------
(* detectAnomalies *)

SpikeAt(entries) == CHOOSE i \in DOMAIN entries : entries[i].weight = RInt(105)

\* C14: for a series of 10 entries oscillating by 0.2 kg around a base with
\* one entry 5 kg above it, detectAnomalies returns exactly one anomaly: that
\* entry, type spike, severity high, wherever the entry sits.
AnomalyScenario ==
    (fout # Idle /\ fout.fn = "detectAnomalies" /\ fin.entries \in SpikeSeries) =>
        fout.res = <<Anomaly(fin.entries[SpikeAt(fin.entries)], "spike", "high")>>

\* C14, for an interior entry: when the entry 5 kg above the base is neither
\* one of the first two nor the last, detectAnomalies returns exactly one
\* anomaly: that entry, type spike, severity high.
AnomalyScenarioInside ==
    (/\ fout # Idle
     /\ fout.fn = "detectAnomalies"
     /\ fin.entries \in SpikeSeries
     /\ SpikeAt(fin.entries) \in 3..9) =>
        fout.res = <<Anomaly(fin.entries[SpikeAt(fin.entries)], "spike", "high")>>

\* the spike sits in the middle of the series and is the one anomaly
AnomalyScenarioWitness ==
    /\ fout # Idle
    /\ fout.fn = "detectAnomalies"
    /\ fin.entries \in SpikeSeries
    /\ SpikeAt(fin.entries) = 5
    /\ Len(fout.res) = 1
    /\ fout.res[1].type = "spike"
    /\ fout.res[1].weight = RInt(105)

---------------------------------------------------------------------------
(* calculateStatistics: progress *)

\* the entries whose date is the greatest of the parseable dates
GreatestDate(entries) ==
    {i \in DOMAIN entries :
        /\ Parses(entries[i])
        /\ \A j \in DOMAIN entries :
               Parses(entries[j]) =>
                   parseDateFlexible(entries[j].date).day
                       <= parseDateFlexible(entries[i].date).day}

\* C15: for non-empty entries in any order calculateStatistics takes current
\* to be the entry with the greatest date: current.weight is its weight,
\* totalLost = startWeight - current.weight, remaining = current.weight -
\* endWeight, percentageComplete = totalLost / totalKg * 100, daysElapsed =
\* whole days from goal.startDate to its date, averages.daily = totalLost /
\* max(daysElapsed, 1).
ProgressMath ==
    (/\ fout # Idle
     /\ fout.res.status = "ok"
     /\ parseDateFlexible(fin.targetData.startDate).ok) =>
        \E i \in GreatestDate(fin.entries) :
            LET current == fin.entries[i]
                goal == fin.targetData
                totalLost == Sub(goal.startWeight, current.weight)
                daysElapsed == RInt(parseDateFlexible(current.date).day
                                    - parseDateFlexible(goal.startDate).day)
            IN  /\ fout.res.current.weight = current.weight
                /\ fout.res.progress.totalLost = totalLost
                /\ fout.res.progress.remaining = Sub(current.weight, goal.endWeight)
                /\ fout.res.progress.percentageComplete
                       = Mul(Div(totalLost, goal.totalKg), RInt(100))
                /\ fout.res.progress.daysElapsed = daysElapsed
                /\ fout.res.averages.daily
                       = Div(totalLost, MathMax(daysElapsed, RInt(1)))

\* two entries given latest first: the first one is current
ProgressMathWitness ==
    /\ fout # Idle
    /\ fout.res.status = "ok"
    /\ parseDateFlexible(fin.targetData.startDate).ok
    /\ Len(fin.entries) = 2
    /\ GreatestDate(fin.entries) = {1}
    /\ Parses(fin.entries[2])
    /\ fin.entries[1].weight # fin.entries[2].weight
    /\ fout.res.current.weight = fin.entries[1].weight
    /\ fout.res.progress.daysElapsed = RInt(7)

---------------------------------------------------------------------------
(* Import from Google Sheets: services/GoogleSheetsService.ts *)

\* value.toLowerCase().replace(/[\s_]/g, '').replace('%', 'percent') on the
\* header texts of the model
normalize(value) ==
    CASE value = "Date" -> "date"
      [] value = "DATE " -> "date"
      [] value = "Weight" -> "weight"
      [] value = "Weight (kg)" -> "weight(kg)"
      [] value = "Week Day" -> "weekday"
      [] value = "Notes" -> "notes"
      [] OTHER -> value

\* the aliases of every key, normalized
aliases ==
    [date |-> {"date"},
     weekDay |-> {"weekday", "day"},
     weight |-> {"weight"},
     changePercent |-> {"changepercent"},
     changeKg |-> {"changekg"},
     dailyChange |-> {"dailychange"},
     recordedAt |-> {"recordedat", "recordedtime", "time", "timestamp"}]

\* column indices count from 0
DefaultColumnMap ==
    [date |-> 0, weekDay |-> 1, weight |-> 2, changePercent |-> 3,
     changeKg |-> 4, dailyChange |-> 5, recordedAt |-> 6]

MissingColumnsMessage == "Missing required columns in Weight Data sheet: Date, Weight"

resolveWeightColumnMap(headerRow) ==
    IF Len(headerRow) = 0 THEN [ok |-> TRUE, error |-> "", map |-> DefaultColumnMap]
    ELSE
    LET normalizedHeaders == {normalize(headerRow[i]) : i \in DOMAIN headerRow}
        missingRequired == {"date", "weight"} \ normalizedHeaders
    IN  IF missingRequired # {}
        THEN [ok |-> FALSE, error |-> MissingColumnsMessage, map |-> DefaultColumnMap]
        ELSE [ok |-> TRUE, error |-> "",
              map |-> [key \in DOMAIN DefaultColumnMap |->
                          LET hits == {i \in DOMAIN headerRow :
                                          normalize(headerRow[i]) \in aliases[key]}
                          IN  IF hits = {} THEN DefaultColumnMap[key]
                              ELSE (CHOOSE i \in hits : \A j \in hits : j <= i) - 1]]

\* a cell of a data row: a date text, a numeric text or any other text
DateCell(date) == [kind |-> "date", date |-> date, num |-> Zero]

NumberCell(num) == [kind |-> "number", date |-> BadDate, num |-> num]

TextCell == [kind |-> "text", date |-> BadDate, num |-> Zero]

\* row[index] of a row shorter than index: undefined
NoCell == [kind |-> "none", date |-> BadDate, num |-> Zero]

CellAt(row, index) == IF index + 1 <= Len(row) THEN row[index + 1] ELSE NoCell

\* '' for no value; the yyyy-MM-dd text of a date; any other text unchanged
normalizeDateValue(cell) ==
    IF cell.kind = "none" THEN [present |-> FALSE, date |-> BadDate]
    ELSE IF cell.kind = "date" /\ parseDateFlexible(cell.date).ok
         THEN [present |-> TRUE, date |-> toISODate(cell.date).date]
         ELSE [present |-> TRUE, date |-> BadDate]

parseFloat(cell) == IF cell.kind = "number" THEN cell.num ELSE NaN

\* parseFloat(x) || 0
FloatOrZero(cell) ==
    LET x == parseFloat(cell) IN IF IsNaN(x) \/ x = Zero THEN Zero ELSE x

mapWeightRow(row, columnMap) ==
    LET dateValue == normalizeDateValue(CellAt(row, columnMap.date))
        weightValue == CellAt(row, columnMap.weight)
        weight == parseFloat(weightValue)
    IN  IF ~dateValue.present \/ weightValue.kind = "none" \/ IsNaN(weight)
        THEN [ok |-> FALSE, entry |-> Entry(BadDate, Zero, Zero, Zero, Zero)]
        ELSE [ok |-> TRUE,
              entry |-> Entry(dateValue.date, weight,
                              FloatOrZero(CellAt(row, columnMap.changePercent)),
                              FloatOrZero(CellAt(row, columnMap.changeKg)),
                              FloatOrZero(CellAt(row, columnMap.dailyChange)))]

SheetDerived(sorted, index) ==
    LET entry == sorted[index]
    IN  IF index = 1 THEN Entry(entry.date, entry.weight, Zero, Zero, Zero)
        ELSE LET prev == sorted[index - 1]
                 changeKg == Sub(entry.weight, prev.weight)
                 daysDiff == MathMax(RInt(1),
                                     MathFloor(Sub(TimeOf(entry.date), TimeOf(prev.date))))
             IN  Entry(entry.date, entry.weight,
                       Mul(Div(changeKg, prev.weight), RInt(100)),
                       changeKg, Div(changeKg, daysDiff))

normalizeEntries(entries) ==
    IF Len(entries) = 0 THEN entries
    ELSE LET parseable == SelectSeq(entries, LAMBDA e : toISODate(e.date).ok)
             normalized == [i \in 1..Len(parseable) |->
                               [parseable[i] EXCEPT !.date = toISODate(@).date]]
             sorted == SortByDate(normalized)
         IN  [index \in 1..Len(sorted) |-> SheetDerived(sorted, index)]

SheetOutcome(status, error, entries, syncStatus) ==
    [kind |-> "sheet", status |-> status, error |-> error, entries |-> entries,
     syncStatus |-> syncStatus, lastError |-> error]

\* GoogleSheetsService.fetchWeightData with the client ready, the spreadsheet
\* configured and both range requests answered
sheetsFetchWeightData(headerRow, rows) ==
    LET columnMap == resolveWeightColumnMap(headerRow)
    IN  IF ~columnMap.ok
        THEN SheetOutcome("error", columnMap.error, <<>>, "error")
        ELSE LET mapped == [i \in 1..Len(rows) |-> mapWeightRow(rows[i], columnMap.map)]
                 kept == SelectSeq(mapped, LAMBDA m : m.ok)
             IN  SheetOutcome("ok", "",
                              normalizeEntries([i \in 1..Len(kept) |-> kept[i].entry]),
                              "success")

---------------------------------------------------------------------------
(* The import as a function of the sheet *)

ColumnKinds == {"date", "weekDay", "weight", "notes"}

HeadersOf(kind) ==
    CASE kind = "date" -> {"Date", "DATE "}
      [] kind = "weight" -> {"Weight", "Weight (kg)"}
      [] kind = "weekDay" -> {"Week Day"}
      [] OTHER -> {"Notes"}

CellsOf(kind) ==
    CASE kind = "date" -> {DateCell(IsoDate(0)), DateCell(DmyDate(1)), DateCell(BadDate)}
      [] kind = "weight" -> {NumberCell(RInt(98)), TextCell}
      [] OTHER -> {TextCell}

\* sequences of distinct column kinds
Layouts ==
    {l \in SeqsUpTo(ColumnKinds, MaxColumns) :
        \A i, j \in DOMAIN l : i # j => l[i] # l[j]}

StandardLayout == <<"date", "weekDay", "weight">>

HeaderRowsOf(layout) ==
    {h \in [1..Len(layout) -> UNION {HeadersOf(k) : k \in ColumnKinds}] :
        \A i \in DOMAIN layout : h[i] \in HeadersOf(layout[i])}

RowsOf(layout) ==
    {r \in [1..Len(layout) -> UNION {CellsOf(k) : k \in ColumnKinds}] :
        \A i \in DOMAIN layout : r[i] \in CellsOf(layout[i])}

\* the sheets with a header row over the columns of the layout
SheetsOver(layout) ==
    {[headerRow |-> h, rows |-> rs] :
        h \in HeaderRowsOf(layout), rs \in SeqsUpTo(RowsOf(layout), MaxRows)}

\* the sheets whose header row is empty and whose rows have the first n
\* columns of the standard order
SheetsWithoutHeader(n) ==
    {[headerRow |-> <<>>, rows |-> rs] :
        rs \in SeqsUpTo(RowsOf(SubSeq(StandardLayout, 1, n)), MaxRows)}

InitSheets ==
    /\ storage = NoStorage
    /\ lastEntryDate = NoLast
    /\ mockWeightData = SeedData
    /\ targetStorage = NoTarget
    /\ achievementStorage = NoAchievements
    /\ clock = 0
    /\ result = NoCall
    /\ \/ \E layout \in Layouts : \E sh \in SheetsOver(layout) :
              fin = [kind |-> "sheet", headerRow |-> sh.headerRow, rows |-> sh.rows]
       \/ \E n \in 0..Len(StandardLayout) : \E sh \in SheetsWithoutHeader(n) :
              fin = [kind |-> "sheet", headerRow |-> sh.headerRow, rows |-> sh.rows]
    /\ fout = Idle

SheetsFetchWeightData ==
    /\ fout = Idle
    /\ fout' = sheetsFetchWeightData(fin.headerRow, fin.rows)
    /\ UNCHANGED <<storage, lastEntryDate, mockWeightData, targetStorage,
                 achievementStorage, clock, result, fin>>

NextSheets == SheetsFetchWeightData

SpecSheets == InitSheets /\ [][NextSheets]_vars

\* the required columns the header row does not name
MissingRequired(headerRow) ==
    {"date", "weight"} \ {normalize(headerRow[i]) : i \in DOMAIN headerRow}

NamesExactly(missing) ==
    IF missing = {"date"} THEN "Missing required columns in Weight Data sheet: Date"
    ELSE IF missing = {"weight"}
    THEN "Missing required columns in Weight Data sheet: Weight"
    ELSE "Missing required columns in Weight Data sheet: Date, Weight"

\* C16: fetchWeightData fails whenever the header row has no Date column or
\* no Weight column (an empty header row included), the message names exactly
\* the missing columns, and no entries are returned.
ImportSchemaStrict ==
    (fout # Idle /\ MissingRequired(fin.headerRow) # {}) =>
        /\ fout.status = "error"
        /\ fout.error = NamesExactly(MissingRequired(fin.headerRow))
        /\ fout.entries = <<>>

---------------------------------------------------------------------------
(* The goal: fetchTargetData and updateTargetData of dataService.ts *)

GoalStartDates == {IsoDate(0), IsoDate(MaxDay), DmyDate(0)}

GoalEndDates == {IsoDate(14), IsoDate(14 + MaxDay), DmyDate(14), IsoDate(306)}

\* the whole days from a goal's start date to its end date
DurationOf(target) ==
    differenceInDays(parseDateFlexible(target.endDate).day,
                     parseDateFlexible(target.startDate).day)

\* goals whose totalDuration was derived from their dates when they were
\* stored, as GoalSimulator derives it
DerivedGoals ==
    {[mockTargetData EXCEPT !.startDate = s, !.endDate = e,
                            !.totalDuration = differenceInDays(e.day, s.day)] :
        s \in GoalStartDates, e \in GoalEndDates}

\* Partial<TargetData>: one date alone, the duration alone, the height
\* alone, the end date with the duration, and the empty patch
TargetPatches ==
    {"startDate" :> s : s \in GoalStartDates}
    \cup {"endDate" :> e : e \in GoalEndDates}
    \cup {"totalDuration" :> RInt(14 + k) : k \in 0..MaxDay}
    \cup {("endDate" :> e) @@ ("totalDuration" :> RInt(14 + k)) :
             e \in GoalEndDates, k \in 0..MaxDay}
    \cup {"height" :> RInt(180)}
    \cup {<<>>}

\* the entries the statistics of the goal are computed over
GoalEntries ==
    << Entry(IsoDate(0), RInt(100), Zero, Zero, Zero),
       Entry(IsoDate(1), RInt(98), RInt(-2), RInt(-2), RInt(-1)) >>

InitGoal ==
    /\ storage = NoStorage
    /\ lastEntryDate = NoLast
    /\ mockWeightData = SeedData
    /\ targetStorage \in {NoTarget} \cup {StoredTarget(g) : g \in DerivedGoals}
    /\ achievementStorage = NoAchievements
    /\ clock = 0
    /\ result = NoCall
    /\ fin = Idle
    /\ fout = Idle

fetchTargetData ==
    LET g == getStoredTargetData(targetStorage)
    IN  /\ targetStorage' = g.storage
        /\ fout' = [kind |-> "fetchTarget", target |-> g.target]
        /\ UNCHANGED <<storage, lastEntryDate, mockWeightData,
                     achievementStorage, clock, result, fin>>

updateTargetData(updates) ==
    LET currentTarget == getStoredTargetData(targetStorage).target
        updatedTarget == Spread(currentTarget, updates)
        g == getStoredEntries(storage, lastEntryDate, mockWeightData)
    IN  /\ targetStorage' = StoredTarget(updatedTarget)
        /\ storage' = g.storage
        /\ lastEntryDate' = g.last
        /\ fin' = [kind |-> "updateTarget", updates |-> updates]
        /\ fout' = [kind |-> "updateTarget", target |-> updatedTarget]
        /\ UNCHANGED <<mockWeightData, achievementStorage, clock, result>>

\* calculateStatistics on the goal the data service returned
GoalStatistics ==
    /\ fout.kind \in {"fetchTarget", "updateTarget"}
    /\ fout' = [kind |-> "goalStatistics", target |-> fout.target,
                res |-> calculateStatistics(GoalEntries, fout.target)]
    /\ UNCHANGED <<storage, lastEntryDate, mockWeightData, targetStorage,
                   achievementStorage, clock, result, fin>>

NextGoal ==
    \/ fetchTargetData
    \/ \E u \in TargetPatches : updateTargetData(u)
    \/ GoalStatistics

SpecGoal == InitGoal /\ [][NextGoal]_vars

\* remaining / max(dailyAvg, 0.01) of a returned Statistics
DaysNeededOf(res) ==
    Div(res.progress.remaining, MathMax(res.averages.daily, Num(1, 100)))

\* C17: after an updateTargetData call the stored goal's totalDuration is the
\* whole number of days between its stored startDate and endDate, and the
\* statistics computed on a returned goal take daysAheadBehind from that
\* number of days
GoalDurationDerived ==
    /\ fout.kind = "updateTarget" =>
           /\ targetStorage.present
           /\ targetStorage.target.totalDuration = DurationOf(targetStorage.target)
    /\ (fout.kind = "goalStatistics" /\ fout.res.status = "ok") =>
           fout.res.target.daysAheadBehind =
               Sub(DurationOf(fout.target),
                   Add(fout.res.progress.daysElapsed, DaysNeededOf(fout.res)))

---------------------------------------------------------------------------
(* Achievements: services/achievementService.ts
   (src/components/PWAInstallPrompt.tsx, from line 162) *)

\* the ids checkAchievements unlocks, in the order it checks them
AchievementIds ==
    << "first_entry", "hundred_club", "week_streak", "month_streak",
       "perfect_week", "consistency_champion", "lost_1kg", "lost_5kg",
       "lost_10kg", "lost_20kg", "halfway_there", "goal_achieved",
       "early_bird" >>

NotUnlockedAt == [present |-> FALSE, day |-> 0]

UnlockedAt(day) == [present |-> TRUE, day |-> day]

Achievement(id, isUnlocked, unlockedAt) ==
    [id |-> id, isUnlocked |-> isUnlocked, unlockedAt |-> unlockedAt]

\* the stored list, or every achievement locked
loadAchievements(st) ==
    IF st.present THEN st.achievements
    ELSE [i \in DOMAIN AchievementIds |->
             Achievement(AchievementIds[i], FALSE, NotUnlockedAt)]

\* currentAchievements.find(a => a.id === id): its index, 0 for undefined
RECURSIVE FindAchievementFrom(_, _, _)
FindAchievementFrom(achievements, id, i) ==
    IF i > Len(achievements) THEN 0
    ELSE IF achievements[i].id = id THEN i
    ELSE FindAchievementFrom(achievements, id, i + 1)

isUnlocked(achievements, id) ==
    LET i == FindAchievementFrom(achievements, id, 1)
    IN  i # 0 /\ achievements[i].isUnlocked

\* state: currentAchievements and newlyUnlocked
unlock(state, id, now) ==
    LET i == FindAchievementFrom(state.achievements, id, 1)
    IN  IF i # 0 /\ ~state.achievements[i].isUnlocked
        THEN LET achievement == Achievement(id, TRUE, UnlockedAt(now))
             IN  [achievements |-> [state.achievements EXCEPT ![i] = achievement],
                  newlyUnlocked |-> Append(state.newlyUnlocked, achievement)]
        ELSE state

\* differenceInDays(new Date(), day): whole days, truncated towards zero; new
\* Date() lies after the midnight that starts today
differenceInDaysFromNow(today, day) ==
    IF day > today THEN today - day + 1 ELSE today - day

\* every day from the Sunday of this week to today has an entry
isPerfectWeek(entries, today) ==
    \A day \in startOfWeek(today)..today :
        IsoDate(day) \in getUniqueEntryDays(entries)

\* entries recorded before 9 AM
countEarlyEntries(entries) ==
    Cardinality({i \in DOMAIN entries :
                    /\ entries[i].recordedAt.fmt = "datetime"
                    /\ entries[i].recordedAt.hour < 9})

\* calculateConsistency of the achievement service: the percentage of the
\* days from the first logged day to today that have an entry
calculateTrackingConsistency(entries, today) ==
    IF Len(entries) = 0 THEN Zero
    ELSE LET uniqueDays == {parseDateFlexible(d).day : d \in getUniqueEntryDays(entries)}
         IN  IF uniqueDays = {} THEN Zero
             ELSE LET firstEntry == CHOOSE d \in uniqueDays :
                                        \A e \in uniqueDays : d <= e
                      totalDays == differenceInDaysFromNow(today, firstEntry) + 1
                      trackedDays == Cardinality(uniqueDays)
                  IN  IF totalDays > 0
                      THEN Mul(Div(RInt(trackedDays), RInt(totalDays)), RInt(100))
                      ELSE Zero

\* the condition checkAchievements tests for each id
ConditionMet(id, entries, stats, today) ==
    CASE id = "first_entry" -> Len(entries) >= 1
      [] id = "hundred_club" -> Len(entries) >= 100
      [] id = "week_streak" -> calculateEntryStreak(entries, today) >= 7
      [] id = "month_streak" -> calculateEntryStreak(entries, today) >= 30
      [] id = "perfect_week" -> isPerfectWeek(entries, today)
      [] id = "consistency_champion" ->
             Ge(calculateTrackingConsistency(entries, today), RInt(90))
      [] id = "lost_1kg" -> Ge(stats.progress.totalLost, RInt(1))
      [] id = "lost_5kg" -> Ge(stats.progress.totalLost, RInt(5))
      [] id = "lost_10kg" -> Ge(stats.progress.totalLost, RInt(10))
      [] id = "lost_20kg" -> Ge(stats.progress.totalLost, RInt(20))
      [] id = "halfway_there" -> Ge(stats.progress.percentageComplete, RInt(50))
      [] id = "goal_achieved" -> Ge(stats.progress.percentageComplete, RInt(100))
      [] id = "early_bird" -> countEarlyEntries(entries) >= 10

\* the checks of checkAchievements from the i-th on
RECURSIVE CheckFrom(_, _, _, _, _)
CheckFrom(state, i, entries, stats, today) ==
    IF i > Len(AchievementIds) THEN state
    ELSE LET id == AchievementIds[i]
         IN  CheckFrom(IF /\ ConditionMet(id, entries, stats, today)
                          /\ ~isUnlocked(state.achievements, id)
                       THEN unlock(state, id, today)
                       ELSE state,
                       i + 1, entries, stats, today)

\* checkAchievements: what it saves and returns
checkAchievementsOn(st, entries, stats, today) ==
    CheckFrom([achievements |-> loadAchievements(st), newlyUnlocked |-> <<>>],
              1, entries, stats, today)

---------------------------------------------------------------------------
(* Calls of checkAchievements as the days pass *)

MaxClock == 2

MaxCalls == 2

\* n daily entries of 100 kg, the last on the given day, recorded at the
\* given hour
DailyRun(n, last, hour) ==
    [i \in 1..n |-> Logged(IsoDate(last - n + i), RInt(100), RecordedAtHour(hour))]

\* the part of a Statistics that checkAchievements reads
Progress(totalLost, percentageComplete) ==
    [progress |-> [totalLost |-> RInt(totalLost),
                   percentageComplete |-> RInt(percentageComplete)]]

CheckInput(entries, stats) == [entries |-> entries, stats |-> stats]

\* no entry; one entry on day 0; one entry dated ahead of the clock; a week,
\* a month and a hundred days of entries, with more and more weight lost
CheckInputs ==
    {CheckInput(<<>>, Progress(0, 0)),
     CheckInput(DailyRun(1, 0, 10), Progress(1, 5)),
     CheckInput(DailyRun(1, MaxClock, 10), Progress(0, 0)),
     CheckInput(DailyRun(7, 1, 10), Progress(5, 50)),
     CheckInput(DailyRun(30, 0, 8), Progress(10, 50)),
     CheckInput(DailyRun(100, -10, 10), Progress(20, 100))}

\* an empty saved list, and a list saved on an earlier day with the first
\* achievement unlocked
StoredAchievementLists ==
    {<<>>,
     [i \in DOMAIN AchievementIds |->
         IF i = 1 THEN Achievement(AchievementIds[i], TRUE, UnlockedAt(-1))
         ELSE Achievement(AchievementIds[i], FALSE, NotUnlockedAt)]}

InitAchievements ==
    /\ storage = NoStorage
    /\ lastEntryDate = NoLast
    /\ mockWeightData = SeedData
    /\ targetStorage = NoTarget
    /\ achievementStorage \in
           {NoAchievements} \cup {StoredAchievements(l) : l \in StoredAchievementLists}
    /\ clock = 0
    /\ result = NoCall
    /\ fin = Idle
    /\ fout = [kind |-> "checkAchievements", calls |-> 0,
               achievements |-> <<>>, newlyUnlocked |-> <<>>]

checkAchievements(entries, stats) ==
    LET done == checkAchievementsOn(achievementStorage, entries, stats, clock)
    IN  /\ fout.calls < MaxCalls
        /\ achievementStorage' = StoredAchievements(done.achievements)
        /\ fin' = [kind |-> "checkAchievements", entries |-> entries, stats |-> stats]
        /\ fout' = [kind |-> "checkAchievements", calls |-> fout.calls + 1,
                    achievements |-> done.achievements,
                    newlyUnlocked |-> done.newlyUnlocked]
        /\ UNCHANGED <<storage, lastEntryDate, mockWeightData, targetStorage,
                       clock, result>>

\* a day passes
Tick ==
    /\ clock < MaxClock
    /\ clock' = clock + 1
    /\ UNCHANGED <<storage, lastEntryDate, mockWeightData, targetStorage,
                   achievementStorage, result, fin, fout>>

NextAchievements ==
    \/ \E c \in CheckInputs : checkAchievements(c.entries, c.stats)
    \/ Tick

SpecAchievements == InitAchievements /\ [][NextAchievements]_vars

\* C18: each achievement id is newly unlocked at most once over the calls of
\* checkAchievements, an achievement stored as unlocked stays unlocked with
\* its unlockedAt unchanged, and a call with the inputs of the call before it
\* returns an empty newlyUnlocked
AchievementsUnlockOnce ==
    [][fout'.calls # fout.calls =>
        /\ \A i \in DOMAIN fout'.newlyUnlocked :
               /\ ~isUnlocked(loadAchievements(achievementStorage),
                              fout'.newlyUnlocked[i].id)
               /\ \A j \in DOMAIN fout'.newlyUnlocked :
                      fout'.newlyUnlocked[j].id = fout'.newlyUnlocked[i].id => j = i
        /\ \A i \in DOMAIN achievementStorage.achievements :
               achievementStorage.achievements[i].isUnlocked =>
                   /\ i \in DOMAIN achievementStorage'.achievements
                   /\ achievementStorage'.achievements[i] =
                          achievementStorage.achievements[i]
        /\ (fin.kind = "checkAchievements" /\ fin' = fin) =>
               fout'.newlyUnlocked = <<>>]_vars

---------------------------------------------------------------------------
(* LAST_ENTRY_DATE *)

\* last holds the date of an entry of the list that no entry of the list is
\* later than, and is absent for the empty list
TracksLatest(entries, last) ==
    IF entries = <<>> THEN last = NoLast
    ELSE /\ last.present
         /\ \E i \in DOMAIN entries : entries[i].date = last.date
         /\ \A i \in DOMAIN entries :
                /\ parseDateFlexible(entries[i].date).ok
                /\ parseDateFlexible(entries[i].date).day
                       <= parseDateFlexible(last.date).day

\* C19: updateLastEntryDate stores the date of the chronologically latest
\* entry whatever the order of the list (as when getStoredEntries applies it
\* to the stored list) and removes the key for the empty list; after every
\* successful addWeightEntry, updateWeightEntry or deleteWeightEntry the
\* stored LAST_ENTRY_DATE is the greatest date among the stored entries, or
\* absent when none remain
LastEntryDateTracked ==
    [][/\ (storage.present /\ result'.op = "fetch") =>
              TracksLatest(result'.returned, lastEntryDate')
       /\ (result'.op \in {"add", "update", "delete"} /\ result'.status = "ok") =>
              TracksLatest(storage'.entries, lastEntryDate')]_vars

\* a stored list of two entries, the later one first, was read and
\* LAST_ENTRY_DATE holds the date of the first
LastEntryDateWitness ==
    /\ result.op = "fetch"
    /\ Len(result.returned) = 2
    /\ parseDateFlexible(result.returned[1].date).day
           > parseDateFlexible(result.returned[2].date).day
    /\ lastEntryDate.present
    /\ lastEntryDate.date = result.returned[1].date

---------------------------------------------------------------------------
(* The functions that read the clock: calculateEntryStreak,
   calculateConsistencyStats, generatePredictiveAnalysis *)

\* the longest gap of calculateConsistencyStats from the i-th entry on
RECURSIVE LongestGapFrom(_, _, _)
LongestGapFrom(sortedEntries, i, longestGap) ==
    IF i > Len(sortedEntries) THEN longestGap
    ELSE LET gap == MathMax(Zero,
                        Sub(Sub(TimeOf(sortedEntries[i].date),
                                TimeOf(sortedEntries[i - 1].date)), RInt(1)))
         IN  LongestGapFrom(sortedEntries, i + 1, MathMax(longestGap, gap))

\* today is the day new Date() falls on
calculateConsistencyStats(entries, startDate, today) ==
    LET start == parseDateFlexible(startDate)
        totalDays == IF start.ok
                     THEN MathMax(RInt(1),
                              RInt(differenceInDaysFromNow(today, start.day) + 1))
                     ELSE NaN
        sortedEntries == SortByDate(entries)
        trackedDays == Len(sortedEntries)
    IN  [trackedDays |-> trackedDays,
         totalDays |-> totalDays,
         consistencyPercent |-> Mul(Div(RInt(trackedDays), totalDays), RInt(100)),
         longestGap |-> LongestGapFrom(sortedEntries, 2, Zero)]

\* no entry, and one or two daily entries that end on one of the days the
\* clock shows
ClockedEntries ==
    {<<>>} \cup {DailyRun(n, last, 10) : n \in 1..2, last \in 0..MaxClock}

ClockedStartDates == {IsoDate(0), BadDate}

InitClock ==
    /\ storage = NoStorage
    /\ lastEntryDate = NoLast
    /\ mockWeightData = SeedData
    /\ targetStorage = NoTarget
    /\ achievementStorage = NoAchievements
    /\ clock = 0
    /\ result = NoCall
    /\ fin = Idle
    /\ fout = [kind |-> "call", calls |-> 0, res |-> Zero]

\* a call of fn with the arguments args returns res
ReturnedNow(fn, args, res) ==
    /\ fout.calls < MaxCalls
    /\ fin' = [kind |-> "call", fn |-> fn, args |-> args]
    /\ fout' = [kind |-> "call", calls |-> fout.calls + 1, res |-> res]
    /\ UNCHANGED <<storage, lastEntryDate, mockWeightData, targetStorage,
                   achievementStorage, clock, result>>

EntryStreakCall(entries) ==
    ReturnedNow("calculateEntryStreak", <<entries>>,
                calculateEntryStreak(entries, clock))

ConsistencyStatsCall(entries, startDate) ==
    ReturnedNow("calculateConsistencyStats", <<entries, startDate>>,
                calculateConsistencyStats(entries, startDate, clock))

PredictiveAnalysisCall(entries, targetData) ==
    ReturnedNow("generatePredictiveAnalysis", <<entries, targetData>>,
                generatePredictiveAnalysis(entries, targetData, clock))

NextClock ==
    \/ \E e \in ClockedEntries : EntryStreakCall(e)
    \/ \E e \in ClockedEntries, s \in ClockedStartDates : ConsistencyStatsCall(e, s)
    \/ \E e \in ClockedEntries : PredictiveAnalysisCall(e, AnalyticsGoal)
    \/ Tick

SpecClock == InitClock /\ [][NextClock]_vars

\* C20: two calls of calculateEntryStreak, of calculateConsistencyStats or of
\* generatePredictiveAnalysis with identical arguments return identical
\* results whatever the day of each call
DeterministicInArguments ==
    [][(fout'.calls # fout.calls /\ fin' = fin) => fout'.res = fout.res]_vars

---------------------------------------------------------------------------
(* The array an operation is given, after the operation returned *)

\* mutant: the array passed in is sorted itself
SortOfCopy_inPlace(entries) ==
    [sorted |-> SortByDate(entries), given |-> SortByDate(entries)]

\* [...entries].sort(byDate): the sorted new array, and the array passed in
SortOfCopy(entries) == [sorted |-> SortByDate(entries), given |-> entries]

Operations ==
    {"recalculateEntries", "calculateStatistics", "calculateMovingAverages",
     "analyzeTrend", "calculateVolatilityStats", "calculateWeeklyDeltas",
     "calculateConsistencyStats", "detectChangePoint", "detectAnomalies",
     "calculateEntryStreak"}

\* what the array passed to the operation holds when the operation has
\* returned: the operations that sort do so on a spread copy, after their
\* guard on the length; the others build new arrays with map and filter or
\* only read
GivenAfter(fn, entries) ==
    CASE fn \in {"recalculateEntries", "calculateMovingAverages",
                 "calculateConsistencyStats"} -> SortOfCopy(entries).given
      [] fn = "analyzeTrend" ->
             IF Len(entries) < 14 THEN entries ELSE SortOfCopy(entries).given
      [] fn \in {"calculateVolatilityStats", "calculateWeeklyDeltas"} ->
             IF Len(entries) < 2 THEN entries ELSE SortOfCopy(entries).given
      [] fn = "detectChangePoint" ->
             IF Len(entries) < 28 THEN entries ELSE SortOfCopy(entries).given
      [] OTHER -> entries

FrameLists ==
    SeqsUpTo(AnalyticsEntries, MaxSeriesLen)
    \cup {Reversed(s) : s \in ForwardSeries}

InitFrame ==
    /\ storage = NoStorage
    /\ lastEntryDate = NoLast
    /\ mockWeightData = SeedData
    /\ targetStorage = NoTarget
    /\ achievementStorage = NoAchievements
    /\ clock = 0
    /\ result = NoCall
    /\ fin \in {[kind |-> "frame", given |-> e, entries |-> e] : e \in FrameLists}
    /\ fout = Idle

\* the operation is called on the array fin.entries
Apply(fn) ==
    /\ fout = Idle
    /\ fin' = [fin EXCEPT !.entries = GivenAfter(fn, fin.entries)]
    /\ fout' = [kind |-> "frame", fn |-> fn]
    /\ UNCHANGED <<storage, lastEntryDate, mockWeightData, targetStorage,
                   achievementStorage, clock, result>>

NextFrame == \E fn \in Operations : Apply(fn)

SpecFrame == InitFrame /\ [][NextFrame]_vars

---------------------------------------------------------------------------
(* detectAnomalies: the rule *)

\* the weights of the up-to-3 entries immediately before entry i
WindowBefore(s, i) == WeightsOf(SubSeq(s, IF i - 3 < 1 THEN 1 ELSE i - 3, i - 1))

MeanBefore(s, i) == Div(Sum(WindowBefore(s, i)), RInt(Len(WindowBefore(s, i))))

SdBefore(s, i) == calculateStandardDeviation(WindowBefore(s, i))

IsSpike(s, i) ==
    Lt(Add(MeanBefore(s, i), Mul(Num(25, 10), SdBefore(s, i))), s[i].weight)

IsDrop(s, i) ==
    Lt(s[i].weight, Sub(MeanBefore(s, i), Mul(Num(25, 10), SdBefore(s, i))))

SeverityAt(s, i) ==
    IF Lt(Mul(RInt(3), SdBefore(s, i)),
          MathAbs(Sub(s[i].weight, MeanBefore(s, i))))
    THEN "high" ELSE "medium"

\* the flags of the entries at positions i..last, in order of position
RECURSIVE FlagsOf(_, _, _)
FlagsOf(s, i, last) ==
    IF i > last THEN <<>>
    ELSE (IF IsSpike(s, i) THEN <<Anomaly(s[i], "spike", SeverityAt(s, i))>>
          ELSE <<>>)
         \o (IF IsDrop(s, i) THEN <<Anomaly(s[i], "drop", SeverityAt(s, i))>>
             ELSE <<>>)
         \o FlagsOf(s, i + 1, last)

\* C22: detectAnomalies returns nothing for fewer than 5 entries; otherwise,
\* with n entries in chronological order, it examines exactly the third to
\* the one before the last (indices 2..n-2 from 0), flags entry i as spike
\* iff its weight is above mean + 2.5 sd and as drop iff it is below
\* mean - 2.5 sd of the up-to-3 entries before it (population sd), with
\* severity high iff the deviation from the mean exceeds 3 sd; no entry is
\* flagged both spike and drop.
AnomalyRule ==
    (fout # Idle /\ fout.fn = "detectAnomalies") =>
        LET s == getParsedEntries(fin.entries)
        IN  /\ Len(fin.entries) < 5 => fout.res = <<>>
            /\ Len(fin.entries) >= 5 => fout.res = FlagsOf(s, 3, Len(s) - 1)
            /\ \A i \in 2..Len(s) : ~(IsSpike(s, i) /\ IsDrop(s, i))

\* ten entries of which the first has no parseable date: the entry 5 kg up
\* is the one before the last of the nine in chronological order and is
\* the one anomaly
AnomalyRuleWitness ==
    /\ fout # Idle
    /\ fout.fn = "detectAnomalies"
    /\ fin.entries \in DamagedSeries
    /\ Len(getParsedEntries(fin.entries)) = 9
    /\ IsSpike(getParsedEntries(fin.entries), 8)
    /\ Len(fout.res) = 1
    /\ fout.res[1] = Anomaly(getParsedEntries(fin.entries)[8], "spike", "high")

---------------------------------------------------------------------------
(* calculateStatistics: the weeks and the best week *)

WeekDays == {0, 5, 7, 12, 14}

WeekWeights == {RInt(99), RInt(100), RInt(101)}

MaxWeekEntries == 4

\* one entry on each of the given days with the weight chosen for the day,
\* in order of date
RECURSIVE AscendingOn(_, _)
AscendingOn(days, weightOn) ==
    IF days = {} THEN <<>>
    ELSE LET last == CHOOSE d \in days : \A e \in days : e <= d
         IN  Append(AscendingOn(days \ {last}, weightOn),
                    Entry(IsoDate(last), weightOn[last], Zero, Zero, Zero))

\* the series in order of date and latest first
WeekLists ==
    LET ascending ==
            UNION {{AscendingOn(days, weightOn) : weightOn \in [days -> WeekWeights]} :
                      days \in {d \in SUBSET WeekDays :
                                   d # {} /\ Cardinality(d) <= MaxWeekEntries}}
    IN  ascending \cup {Reversed(s) : s \in ascending}

InitWeeks ==
    /\ storage = NoStorage
    /\ lastEntryDate = NoLast
    /\ mockWeightData = SeedData
    /\ targetStorage = NoTarget
    /\ achievementStorage = NoAchievements
    /\ clock = 0
    /\ result = NoCall
    /\ fin \in {[kind |-> "weeks", entries |-> e, targetData |-> AnalyticsGoal] :
                   e \in WeekLists}
    /\ fout = Idle

\* calculateStatistics, with the weeks it grouped kept beside its result
ComputeWeeks ==
    /\ fout = Idle
    /\ fout' = [kind |-> "weeks",
                weeks |-> groupEntriesByWeek(StatsSorted(fin.entries)),
                res |-> calculateStatistics(fin.entries, fin.targetData)]
    /\ UNCHANGED <<storage, lastEntryDate, mockWeightData, targetStorage,
                 achievementStorage, clock, result, fin>>

NextWeeks == ComputeWeeks

SpecWeeks == InitWeeks /\ [][NextWeeks]_vars

RECURSIVE EntriesOfWeeks(_)
EntriesOfWeeks(weeks) ==
    IF weeks = <<>> THEN <<>>
    ELSE weeks[1].entries \o EntriesOfWeeks(Tail(weeks))

\* the position in the series of the first entry of week k
RECURSIVE FirstOfWeek(_, _)
FirstOfWeek(weeks, k) ==
    IF k = 1 THEN 1
    ELSE FirstOfWeek(weeks, k - 1) + Len(weeks[k - 1].entries)

\* the week that holds the entry at position i of the series
WeekHolding(weeks, i) ==
    CHOOSE k \in DOMAIN weeks :
        /\ FirstOfWeek(weeks, k) <= i
        /\ i < FirstOfWeek(weeks, k) + Len(weeks[k].entries)

DayOfEntry(entry) == parseDateFlexible(entry.date).day

\* C23: groupEntriesByWeek partitions the chronological series into
\* consecutive buckets, every entry in exactly one; a bucket starts at an
\* entry exactly when the entry is 7 or more days after the first entry of
\* the current bucket; a bucket's totalLoss is its first weight minus its
\* last; performance.bestWeek is the bucket with the most negative
\* totalLoss, the first one on ties, and loss 0 at the start of the first
\* bucket when no totalLoss is negative.
BestWeekBucketing ==
    (fout # Idle /\ fout.kind = "weeks") =>
        LET series == StatsSorted(fin.entries)
            weeks == fout.weeks
            best == fout.res.performance.bestWeek
            negative == {k \in DOMAIN weeks : Lt(weeks[k].totalLoss, Zero)}
        IN  /\ EntriesOfWeeks(weeks) = series
            /\ \A k \in DOMAIN weeks :
                   /\ weeks[k].entries # <<>>
                   /\ weeks[k].startDate = weeks[k].entries[1].date
                   /\ weeks[k].totalLoss =
                          Sub(weeks[k].entries[1].weight,
                              weeks[k].entries[Len(weeks[k].entries)].weight)
            /\ \A i \in 2..Len(series) :
                   (\E k \in DOMAIN weeks : FirstOfWeek(weeks, k) = i)
                   <=> DayOfEntry(series[i])
                       - DayOfEntry(series[FirstOfWeek(weeks,
                                                      WeekHolding(weeks, i - 1))])
                       >= DaysPerWeek
            /\ IF negative = {}
               THEN best = [weekStart |-> weeks[1].startDate, loss |-> Zero]
               ELSE \E k \in negative :
                        /\ \A j \in negative : Le(weeks[k].totalLoss, weeks[j].totalLoss)
                        /\ \A j \in negative :
                               j < k => Lt(weeks[k].totalLoss, weeks[j].totalLoss)
                        /\ best = [weekStart |-> weeks[k].startDate,
                                   loss |-> weeks[k].totalLoss]

\* entries on days 0, 5, 7 and 12 given latest first: two weeks, days 0 to 5
\* and days 7 to 12, each with a gain of 1 kg, and the first is the best
BestWeekBucketingWitness ==
    /\ fout # Idle
    /\ fout.kind = "weeks"
    /\ Len(fin.entries) = 4
    /\ fin.entries[1].date = IsoDate(12)
    /\ Len(fout.weeks) = 2
    /\ fout.weeks[1].totalLoss = RInt(-1)
    /\ fout.weeks[2].totalLoss = RInt(-1)
    /\ fout.weeks[2].startDate = IsoDate(7)
    /\ fout.res.performance.bestWeek = [weekStart |-> IsoDate(0), loss |-> RInt(-1)]

---------------------------------------------------------------------------
(* normalizeRecordedAt *)

\* A raw recordedAt value: nothing, a string (its content after trim()
\* described by form, and whether it carries surrounding blanks), a number,
\* a Date object or a value of another type.  The forms of a string:
\*   "blank"    empty or blanks only
\*   "time"     a time of day, as 08:30                  (TIME_ONLY_RE)
\*   "instant"  a local date-time, as 2025-09-28T08:30   (contains T, parses)
\*   "badT"     contains T and parses as nothing, as Tuesday
\*   "date"     a date without time, as 28.09.2025
\*   "text"     no T and parses as nothing, as noon
Minutes == {0, 510}

RawStrings ==
    [type : {"string"}, form : {"blank", "badT", "text"}, day : {0}, minute : {0},
     padded : BOOLEAN]
    \cup [type : {"string"}, form : {"time"}, day : {0}, minute : Minutes,
          padded : BOOLEAN]
    \cup [type : {"string"}, form : {"instant"}, day : 0..MaxDay, minute : Minutes,
          padded : BOOLEAN]
    \cup [type : {"string"}, form : {"date"}, day : 0..MaxDay, minute : {0},
          padded : BOOLEAN]

\* numbers: 0, NaN, an infinity, or a finite serial date
RawNumbers ==
    [type : {"number"}, form : {"zero", "nan", "infinite"}, day : {0}, minute : {0},
     padded : {FALSE}]
    \cup [type : {"number"}, form : {"serial"}, day : 0..MaxDay, minute : Minutes,
          padded : {FALSE}]

RawOthers ==
    [type : {"undefined", "null", "boolean"}, form : {"none"}, day : {0},
     minute : {0}, padded : {FALSE}]
    \cup [type : {"Date"}, form : {"valid"}, day : 0..MaxDay, minute : Minutes,
          padded : {FALSE}]
    \cup [type : {"Date"}, form : {"invalid"}, day : {0}, minute : {0},
          padded : {FALSE}]

RawValues == RawStrings \cup RawNumbers \cup RawOthers

\* !value
Falsy(value) ==
    \/ value.type \in {"undefined", "null"}
    \/ value.type = "number" /\ value.form \in {"zero", "nan"}
    \/ value.type = "string" /\ value.form = "blank" /\ ~value.padded

NoInstant == [ok |-> FALSE, day |-> 0, minute |-> 0]

Instant(day, minute) == [ok |-> TRUE, day |-> day, minute |-> minute]

\* parseDateFlexible on a value of any type: a Date (day and minute) or null
parseAnyDate(value) ==
    IF Falsy(value) THEN NoInstant
    ELSE IF value.type = "Date"
    THEN IF value.form = "valid" THEN Instant(value.day, value.minute) ELSE NoInstant
    ELSE IF value.type = "number" /\ value.form = "serial"
    THEN Instant(value.day, value.minute)
    ELSE IF value.type # "string" THEN NoInstant
    ELSE CASE value.form = "blank" -> NoInstant
           [] value.form = "time" -> Instant(0, value.minute)
           [] value.form = "instant" -> Instant(value.day, value.minute)
           [] value.form = "date" -> Instant(value.day, 0)
           [] OTHER -> NoInstant

Undefined == [defined |-> FALSE]

\* Date.prototype.toISOString()
toISOString(instant) ==
    [defined |-> TRUE, form |-> "toISOString", day |-> instant.day,
     minute |-> instant.minute]

\* the string `${dateIso}T${trimmed}`
Spliced(dateIso, trimmed) ==
    [defined |-> TRUE, form |-> "spliced", date |-> dateIso, time |-> trimmed.minute]

\* the trimmed string itself
Verbatim(trimmed) ==
    [defined |-> TRUE, form |-> "verbatim", text |-> trimmed]

trim(value) == [value EXCEPT !.padded = FALSE]

normalizeRecordedAt(dateIso, value) ==
    IF Falsy(value) THEN Undefined
    ELSE IF value.type = "string" /\ value.form = "blank" THEN Undefined
    ELSE IF value.type = "string" /\ value.form \in {"instant", "badT"}
    THEN LET parsed == parseAnyDate(trim(value))
         IN  IF parsed.ok THEN toISOString(parsed) ELSE Verbatim(trim(value))
    ELSE IF value.type = "string" /\ value.form = "time"
    THEN Spliced(dateIso, trim(value))
    ELSE LET parsed == parseAnyDate(value)
         IN  IF parsed.ok THEN toISOString(parsed) ELSE Undefined

InitRecordedAt ==
    /\ storage = NoStorage
    /\ lastEntryDate = NoLast
    /\ mockWeightData = SeedData
    /\ targetStorage = NoTarget
    /\ achievementStorage = NoAchievements
    /\ clock = 0
    /\ result = NoCall
    /\ fin \in {[kind |-> "recordedAt", dateIso |-> IsoDate(d), value |-> v] :
                   d \in 0..MaxDay, v \in RawValues}
    /\ fout = Idle

CallNormalizeRecordedAt ==
    /\ fout = Idle
    /\ fout' = [kind |-> "recordedAt",
                res |-> normalizeRecordedAt(fin.dateIso, fin.value)]
    /\ UNCHANGED <<storage, lastEntryDate, mockWeightData, targetStorage,
                 achievementStorage, clock, result, fin>>

NextRecordedAt == CallNormalizeRecordedAt

SpecRecordedAt == InitRecordedAt /\ [][NextRecordedAt]_vars

\* the value is present and reads as a date or as a time of day
ReadsAsDateOrTime(value) ==
    \/ value.type = "string" /\ value.form \in {"time", "instant", "date"}
    \/ value.type = "number" /\ value.form = "serial"
    \/ value.type = "Date" /\ value.form = "valid"

\* C24: normalizeRecordedAt returns undefined whenever the raw value is
\* absent or does not parse as a date or a time, a string that contains T
\* and does not parse included; it returns a string only when the value
\* parses, and for a time-only value the string is the time spliced onto
\* the dateISO of the entry.
RecordedAtUndefinedUnlessParsed ==
    (fout # Idle /\ fout.kind = "recordedAt") =>
        /\ fout.res.defined <=> ReadsAsDateOrTime(fin.value)
        /\ (fin.value.type = "string" /\ fin.value.form = "time") =>
               fout.res = Spliced(fin.dateIso, trim(fin.value))

---------------------------------------------------------------------------
(* generatePredictiveAnalysis: bounds *)

\* the entries the weekly-loss rate and the consistency are computed from
RecentOf(entries) ==
    slice(getParsedEntries(entries), -14, Len(getParsedEntries(entries)))

\* the recent entries end no lighter than they begin
NetGainOrNoChange(entries) ==
    LET recent == RecentOf(entries)
    IN  /\ recent # <<>>
        /\ Le(recent[1].weight, recent[Len(recent)].weight)

\* C25: for every entry list, the empty one included, and every goal,
\* generatePredictiveAnalysis returns a confidenceLevel within [20, 100];
\* the weekly-loss rate it classifies is never negative, so riskAssessment
\* is healthy whenever the recent entries show a net gain or no change.
ProjectionBounds ==
    (fout # Idle /\ fout.fn = "generatePredictiveAnalysis") =>
        /\ Le(RInt(20), fout.res.confidenceLevel)
        /\ Le(fout.res.confidenceLevel, RInt(100))
        /\ ~Lt(calculateWeeklyLossRate(RecentOf(fin.entries)), Zero)
        /\ NetGainOrNoChange(fin.entries) => fout.res.riskAssessment = "healthy"

---------------------------------------------------------------------------
(* The stored series after a mutation *)

\* C26: after every successful addWeightEntry, updateWeightEntry or
\* deleteWeightEntry the list written to storage, which is the list
\* returned, is in ascending order of date and every entry after the first
\* has changeKg = its weight minus the weight of the entry before it and
\* dailyChange = changeKg / max(1, whole days between the two): the deltas
\* of all entries, not only of the touched one, match their predecessors.
StoredSeriesCanonical ==
    Mutated =>
        /\ storage = Stored(result.returned)
        /\ \A i \in 2..Len(storage.entries) :
               LET entry == storage.entries[i]
                   before == storage.entries[i - 1]
                   days == Sub(TimeOf(entry.date), TimeOf(before.date))
               IN  /\ Le(Zero, days)
                   /\ entry.changeKg = Sub(entry.weight, before.weight)
                   /\ entry.dailyChange =
                          Div(entry.changeKg, MathMax(RInt(1), MathFloor(days)))

\* the middle one of three entries was updated to 98 kg; the entry after
\* it, five days later and untouched, carries its deltas against 98 kg
StoredSeriesCanonicalWitness ==
    /\ result.op = "update"
    /\ result.status = "ok"
    /\ Len(storage.entries) = 3
    /\ storage.entries[2].weight = RInt(98)
    /\ storage.entries[3].date = IsoDate(6)
    /\ storage.entries[3].changeKg = RInt(14)
    /\ storage.entries[3].dailyChange = Num(14, 5)

---------------------------------------------------------------------------
(* Rejected mutations *)

\* the store holds a list and every date in it parses
HoldsParseableOnly ==
    /\ storage.present
    /\ \A i \in DOMAIN storage.entries : Parses(storage.entries[i])

\* an entry of the store is dated the given day
DatePresent(date) ==
    \E i \in DOMAIN storage.entries : SameDate(storage.entries[i], [date |-> date])

\* the call threw the message and left the entry list, LAST_ENTRY_DATE and
\* the sheet untouched
RejectedWith(message) ==
    /\ result'.status = "error"
    /\ result'.error = message
    /\ ~result'.syncCalled
    /\ storage' = storage
    /\ lastEntryDate' = lastEntryDate

\* C27: when the store holds only entries with parseable dates,
\* addWeightEntry with a date already present fails with 'An entry for this
\* date already exists' and updateWeightEntry or deleteWeightEntry with a
\* date not present fails with 'Entry not found'; in each case the stored
\* entry list and LAST_ENTRY_DATE are what they were before the call and no
\* sheet sync is started.
RejectedMutationsChangeNothing ==
    [][ HoldsParseableOnly =>
          /\ \A d \in InputDates, w \in Weights :
                 (addWeightEntry(d, w) /\ DatePresent(d)) =>
                     RejectedWith("An entry for this date already exists")
          /\ \A d \in InputDates, u \in Updates :
                 (updateWeightEntry(d, u) /\ ~DatePresent(d)) =>
                     RejectedWith("Entry not found")
          /\ \A d \in InputDates :
                 (deleteWeightEntry(d) /\ ~DatePresent(d)) =>
                     RejectedWith("Entry not found") ]_vars

---------------------------------------------------------------------------
(* GoogleSheetsService: the sync status under two parallel operations *)

\* the fields of the service the operations share
Service(syncStatus, lastError, lastSyncTime) ==
    [syncStatus |-> syncStatus, lastError |-> lastError,
     lastSyncTime |-> lastSyncTime]

updateSyncStatus(service, status) ==
    IF status = "success"
    THEN Service(status, "null", "now")
    ELSE [service EXCEPT !.syncStatus = status]

setLastError(service, message) ==
    updateSyncStatus([service EXCEPT !.lastError = message], "error")

\* the two operations a sync runs under Promise.all, and where each stands:
\*   "called"      at await ensureClientReady()
\*   "clearing"    writeWeightData awaits values.clear
\*   "requesting"  awaits its (last) request
\*   "fulfilled", "rejected"  settled
SyncOperations == {"weight", "target"}

ServiceStates ==
    {Service("idle", "null", "null"), Service("success", "null", "now"),
     Service("error", "an earlier failure", "null")}

InitSync ==
    /\ storage = NoStorage
    /\ lastEntryDate = NoLast
    /\ mockWeightData = SeedData
    /\ targetStorage = NoTarget
    /\ achievementStorage = NoAchievements
    /\ clock = 0
    /\ result = NoCall
    /\ fin \in [kind : {"sync"}, direction : {"syncToSheets", "syncFromSheets"},
                spreadsheetId : {"", "sheet"}]
    /\ fout \in {[kind |-> "sync", service |-> s,
                  pc |-> [op \in SyncOperations |-> "called"]] : s \in ServiceStates}

SyncStep(service, pc) ==
    /\ fout' = [fout EXCEPT !.service = service, !.pc = pc]
    /\ UNCHANGED <<storage, lastEntryDate, mockWeightData, targetStorage,
                 achievementStorage, clock, result, fin>>

\* the operation resumes after await ensureClientReady(): it throws when no
\* spreadsheet is configured, otherwise it sets 'syncing' and sends its first
\* request; the operation called first resumes first
BeginOperation(op) ==
    /\ fout.pc[op] = "called"
    /\ op = "target" => fout.pc["weight"] # "called"
    /\ IF fin.spreadsheetId = ""
       THEN SyncStep(fout.service, [fout.pc EXCEPT ![op] = "rejected"])
       ELSE SyncStep(updateSyncStatus(fout.service, "syncing"),
                     [fout.pc EXCEPT ![op] =
                         IF op = "weight" /\ fin.direction = "syncToSheets"
                         THEN "clearing" ELSE "requesting"])

\* values.clear of writeWeightData resolves and values.update is sent
WeightCleared ==
    /\ fout.pc["weight"] = "clearing"
    /\ SyncStep(fout.service, [fout.pc EXCEPT !["weight"] = "requesting"])

\* the last request of the operation resolves (and what it returned is read)
OperationSucceeds(op) ==
    /\ fout.pc[op] = "requesting"
    /\ SyncStep(updateSyncStatus(fout.service, "success"),
                [fout.pc EXCEPT ![op] = "fulfilled"])

\* what a request may reject with: an Error, or a response object
Rejections == {"Error", "response"}

\* error instanceof Error ? error.message : 'Failed to ... Google Sheets'
MessageOf(op, error) ==
    IF error = "Error" THEN "the message of the Error"
    ELSE "Failed to " \o fin.direction \o " " \o op

\* a request of the operation rejects, or reading what it returned throws
OperationFails(op, error) ==
    /\ fout.pc[op] \in {"clearing", "requesting"}
    /\ SyncStep(setLastError(fout.service, MessageOf(op, error)),
                [fout.pc EXCEPT ![op] = "rejected"])

NextSync ==
    \/ \E op \in SyncOperations : BeginOperation(op)
    \/ WeightCleared
    \/ \E op \in SyncOperations : OperationSucceeds(op)
    \/ \E op \in SyncOperations, error \in Rejections : OperationFails(op, error)

SpecSync == InitSync /\ [][NextSync]_vars

BothSettled ==
    \A op \in SyncOperations : fout.pc[op] \in {"fulfilled", "rejected"}

\* Promise.all rejects: one of the two operations rejected
SyncRejected == \E op \in SyncOperations : fout.pc[op] = "rejected"

\* C28: when syncToSheets or syncFromSheets rejects because one of its two
\* parallel operations failed, then in every interleaving, once both
\* operations have settled, getSyncStatus() is 'error' and getLastError() is
\* not null.
SyncStatusReflectsFailure ==
    (fout.kind = "sync" /\ BothSettled /\ SyncRejected) =>
        /\ fout.service.syncStatus = "error"
        /\ fout.service.lastError # "null"

---------------------------------------------------------------------------
(* triggerProgressNotifications *)

LossIds == <<"loss-1", "loss-5", "loss-10", "loss-20">>

LossMilestones == <<1, 5, 10, 20>>

ProgressIds == <<"progress-25", "progress-50", "progress-75", "progress-100">>

ProgressMilestones == <<25, 50, 75, 100>>

StreakIds == <<"streak-3", "streak-7", "streak-14", "streak-30">>

StreakMilestones == <<3, 7, 14, 30>>

NotificationIds ==
    {LossIds[i] : i \in 1..4} \cup {ProgressIds[i] : i \in 1..4}
    \cup {StreakIds[i] : i \in 1..4} \cup {"near-goal", "goal-reached"}

\* the ids of the milestones the value has reached, in the order of the list
RECURSIVE ReachedFrom(_, _, _, _)
ReachedFrom(ids, milestones, value, i) ==
    IF i > Len(ids) THEN <<>>
    ELSE (IF Ge(value, RInt(milestones[i])) THEN <<ids[i]>> ELSE <<>>)
         \o ReachedFrom(ids, milestones, value, i + 1)

\* the ids addNotification is called with, in the order of the calls
RequestedIds(settings, entries, stats, today) ==
    (IF settings.milestoneAlerts
     THEN ReachedFrom(LossIds, LossMilestones, stats.progress.totalLost, 1)
          \o ReachedFrom(ProgressIds, ProgressMilestones,
                         stats.progress.percentageComplete, 1)
          \o (IF Lt(Zero, stats.progress.remaining)
                 /\ Le(stats.progress.remaining, RInt(1))
              THEN <<"near-goal">> ELSE <<>>)
          \o (IF Le(stats.progress.remaining, Zero)
              THEN <<"goal-reached">> ELSE <<>>)
     ELSE <<>>)
    \o (IF settings.streakAlerts
        THEN ReachedFrom(StreakIds, StreakMilestones,
                         RInt(calculateEntryStreak(entries, today)), 1)
        ELSE <<>>)

\* historySet, in insertion order, and the payloads passed to
\* sendNotification during the call
Sending(historySet, sentNow) == [historySet |-> historySet, sentNow |-> sentNow]

Has(historySet, id) == \E i \in DOMAIN historySet : historySet[i] = id

\* mutant: the notification is sent whether or not the history has its id
addNotification_noCheck(sending, id) ==
    Sending(IF Has(sending.historySet, id) THEN sending.historySet
            ELSE Append(sending.historySet, id),
            Append(sending.sentNow, id))

addNotification(sending, id) ==
    IF Has(sending.historySet, id) THEN sending
    ELSE Sending(Append(sending.historySet, id), Append(sending.sentNow, id))

RECURSIVE AddAllFrom(_, _, _)
AddAllFrom(sending, ids, i) ==
    IF i > Len(ids) THEN sending
    ELSE AddAllFrom(addNotification(sending, ids[i]), ids, i + 1)

\* new Set(array): the first occurrence of each element, in order
RECURSIVE SetOfArray(_)
SetOfArray(array) ==
    IF array = <<>> THEN <<>>
    ELSE LET front == SetOfArray(SubSeq(array, 1, Len(array) - 1))
         IN  IF Has(front, array[Len(array)]) THEN front
             ELSE Append(front, array[Len(array)])

NotificationSettings == [milestoneAlerts : BOOLEAN, streakAlerts : BOOLEAN]

Permissions == {"granted", "default", "denied"}

\* totalLost, percentageComplete and remaining of a goal of 10 kg
ProgressOf(totalLost) ==
    [progress |-> [totalLost |-> totalLost,
                   percentageComplete |-> Mul(totalLost, RInt(10)),
                   remaining |-> Sub(RInt(10), totalLost)]]

NotifiedStats == {ProgressOf(l) : l \in {Zero, RInt(5), Num(95, 10), RInt(10)}}

NotifiedEntries == {DailyRun(n, 0, 10) : n \in {0, 3, 7}}

StoredHistories == {<<>>, <<"loss-1">>, <<"streak-3", "loss-5", "streak-3">>}

\* fout: NOTIFICATION_HISTORY as stored, how often each id was passed to
\* sendNotification, and of the last call the ids requested and sent
InitNotifications ==
    /\ storage = NoStorage
    /\ lastEntryDate = NoLast
    /\ mockWeightData = SeedData
    /\ targetStorage = NoTarget
    /\ achievementStorage = NoAchievements
    /\ clock = 0
    /\ result = NoCall
    /\ fin = Idle
    /\ fout \in {[kind |-> "notifications", calls |-> 0, history |-> h,
                  sent |-> [id \in NotificationIds |-> 0],
                  requested |-> <<>>, sentNow |-> <<>>] : h \in StoredHistories}

triggerProgressNotifications(settings, permission, entries, stats) ==
    /\ fout.calls < MaxCalls
    /\ IF (~settings.milestoneAlerts /\ ~settings.streakAlerts)
          \/ permission = "denied"
       THEN fout' = [fout EXCEPT !.calls = @ + 1, !.requested = <<>>,
                                 !.sentNow = <<>>]
       ELSE LET requested == RequestedIds(settings, entries, stats, clock)
                sending == AddAllFrom(Sending(SetOfArray(fout.history), <<>>),
                                      requested, 1)
            IN  fout' = [fout EXCEPT
                            !.calls = @ + 1,
                            !.history = sending.historySet,
                            !.sent = [id \in NotificationIds |->
                                         @[id] + Cardinality(
                                             {i \in DOMAIN sending.sentNow :
                                                 sending.sentNow[i] = id})],
                            !.requested = requested,
                            !.sentNow = sending.sentNow]
    /\ UNCHANGED <<storage, lastEntryDate, mockWeightData, targetStorage,
                 achievementStorage, clock, result, fin>>

NextNotifications ==
    \E settings \in NotificationSettings, permission \in Permissions,
       entries \in NotifiedEntries, stats \in NotifiedStats :
        triggerProgressNotifications(settings, permission, entries, stats)

SpecNotifications == InitNotifications /\ [][NextNotifications]_vars

ElementsOf(s) == {s[i] : i \in DOMAIN s}

\* C29: over any sequence of triggerProgressNotifications calls, with any
\* entries, goal, statistics and settings, each notification id is passed
\* to sendNotification at most once in total, and the stored notification
\* history never loses an id.
NotifiedAtMostOnce ==
    [][ /\ \A id \in NotificationIds : fout'.sent[id] <= 1
        /\ ElementsOf(fout.history) \subseteq ElementsOf(fout'.history) ]_vars

\* a second call asks for loss-1 again, which the first call sent, and
\* sends loss-10 for the first time
NotifiedAtMostOnceWitness ==
    /\ fout.kind = "notifications"
    /\ fout.calls = 2
    /\ Has(fout.requested, "loss-1")
    /\ ~Has(fout.sentNow, "loss-1")
    /\ fout.sent["loss-1"] = 1
    /\ Has(fout.sentNow, "loss-10")
    /\ fout.sent["loss-10"] = 1

---------------------------------------------------------------------------
(* The seed series *)

\* C30: after any sequence of addWeightEntry, updateWeightEntry and
\* deleteWeightEntry calls, including ones made while nothing is stored, the
\* module-level default series mockWeightData has its original entries, so
\* a fetchWeightData on an emptied store returns the original seed series.
SeedDataUntouched ==
    /\ mockWeightData = SeedData
    /\ getStoredEntries(NoStorage, lastEntryDate, mockWeightData).entries = SeedData

=============================================================================
